---- MODULE Spec2Model ----
(***************************************************************************)
(* Model of the backlink pipeline of google-scrapper: the baseline search  *)
(* client (lib/googleSearch.js), the backlink finder / verifier            *)
(* (lib/backlinkFinder.js), the competitor analysis and its export         *)
(* (lib/backlinkAnalyzer.js), the exporters (lib/exporters.js), the        *)
(* metadata extractor (lib/metadataExtractor.js), the SERP search of       *)
(* src/modules and the main entry point run.                               *)
(*                                                                         *)
(* JavaScript strings are modelled as sequences of one-character strings,  *)
(* so that the regular-expression replacements, substring tests and URL    *)
(* parsing of the source are computed and not assumed.                     *)
(***************************************************************************)
EXTENDS Integers, Sequences, FiniteSets, TLC

VARIABLES
    \* ---- verifyBacklinks(backlinks, targetUrl, maxConcurrent) ----
    backlinks,          \* argument: array of backlink objects
    targetUrl,          \* argument: target URL or domain (a string)
    maxConcurrent,      \* argument: batch size
    i,                  \* loop variable of the batch loop
    batch,              \* backlinks.slice(i, i + maxConcurrent)
    batchPromises,      \* one promise per member of the batch
    verifiedBacklinks,  \* the accumulating output array
    vpc,                \* position of the async function
    vret,               \* the array the returned promise resolves with
    fetched             \* history: outcome of axios.get per input position

VARIABLES
    \* ---- searchGoogle(keywords, numResults) of lib/googleSearch.js ----
    keywords,           \* argument: the query
    numResults,         \* argument: number of results wanted
    numCalls,           \* Math.ceil(numResults / 10)
    si,                 \* loop variable i of the paging loop
    allResults,         \* the items collected so far
    spc,                \* position of the async function
    sret,               \* the array the returned promise resolves with
    sthrown,            \* the error the returned promise rejects with
    calls               \* history: the customsearch.cse.list calls, in order

VARIABLES
    \* ---- getUniqueReferringDomains(backlinks) ----
    dArg,               \* argument: array of backlink objects
    dpc,                \* "called", then how far the calls below have come
    dret,               \* getUniqueReferringDomains(dArg)
    dretAgain,          \* getUniqueReferringDomains applied to dret
    dretTwice           \* getUniqueReferringDomains([...dArg, ...dArg])

verifyVars == <<backlinks, targetUrl, maxConcurrent, i, batch, batchPromises,
                verifiedBacklinks, vpc, vret, fetched>>

searchVars == <<keywords, numResults, numCalls, si, allResults, spc, sret,
                sthrown, calls>>

VARIABLES
    \* ---- findBacklinks(domain, numResults) / findBacklinksForUrl(url, numResults) ----
    fname,              \* which of the two functions is called
    farg,               \* argument: the domain or the URL
    fnum,               \* argument: numResults
    fpc,                \* position of the async function
    fret,               \* the array the returned promise resolves with
    fthrown             \* the error the returned promise rejects with

domainVars == <<dArg, dpc, dret, dretAgain, dretTwice>>

findVars == <<fname, farg, fnum, fpc, fret, fthrown>>

VARIABLES
    \* ---- analyzeTopRankingBacklinks(keyword, numResults, maxBacklinksPerUrl) ----
    keyword,            \* argument: the keyword analysed
    aNumResults,        \* argument numResults: how many top pages to analyse
    maxBacklinksPerUrl, \* argument: backlinks wanted per page
    topPages,           \* what analyzeSERP returned
    ai,                 \* loop variable i of the loop over topPages
    backlinksAnalysis,  \* the records built so far
    apc,                \* position of the async function
    aret,               \* the object the returned promise resolves with
    athrown,            \* the error the returned promise rejects with
    lookups             \* history: the findBacklinksForUrl calls, in order

analyzeVars == <<keyword, aNumResults, maxBacklinksPerUrl, topPages, ai,
                 backlinksAnalysis, apc, aret, athrown, lookups>>

VARIABLES
    \* ---- exportToJson(data, filename) / exportToCsv(data, filename) ----
    ename,              \* which of the two functions is called
    eData,              \* argument: the data to export
    eFilename,          \* argument: the file name
    epc,                \* position of the async function
    eret,               \* the path the returned promise resolves with
    ethrown,            \* the error the returned promise rejects with
    written             \* the file system operations that succeeded, in order

exportVars == <<ename, eData, eFilename, epc, eret, ethrown, written>>

VARIABLES
    \* ---- extractMetadataFromUrls(urls) of lib/metadataExtractor.js ----
    urls,               \* argument: array of URLs
    concurrentRequests, \* config.request.concurrentRequests
    mi,                 \* loop variable i of the batch loop
    mbatch,             \* urls.slice(i, i + concurrentRequests)
    mBatchPromises,     \* one extractMetadata promise per member of the batch
    results,            \* the accumulating output array
    mpc,                \* position of the async function
    mret,               \* the array the returned promise resolves with
    mfetched            \* history: outcome of axios.get per input position

metaVars == <<urls, concurrentRequests, mi, mbatch, mBatchPromises, results,
              mpc, mret, mfetched>>

VARIABLES
    \* ---- searchGoogle(keyword, numResults) of src/modules (SERP search) ----
    gKeyword,           \* argument keyword
    gNumResults,        \* argument numResults
    numRequests,        \* Math.ceil(numResults / maxResultsPerRequest)
    gi,                 \* loop variable i of the request loop
    gSearchResults,     \* searchResults: the items collected so far
    gpc,                \* position of the async function
    gret,               \* the array the returned promise resolves with
    glog                \* history: the page calls and the waits, in order

serpVars == <<gKeyword, gNumResults, numRequests, gi, gSearchResults, gpc, gret, glog>>

VARIABLES
    \* ---- searchMultipleKeywords(keywords, numResultsPerKeyword) ----
    kKeywords,          \* argument keywords: array of keywords
    numResultsPerKeyword, \* argument
    ki,                 \* how many keywords the for-of loop has finished
    kAllResults,        \* allResults: the entries collected so far
    uniqueUrls,         \* the Set of links seen so far
    kpc,                \* position of the async function
    kret,               \* the array the returned promise resolves with
    searches            \* history: the searchGoogle calls, in order

multiVars == <<kKeywords, numResultsPerKeyword, ki, kAllResults, uniqueUrls,
               kpc, kret, searches>>

VARIABLES
    \* ---- exportBacklinkAnalysis(analysis, outputPrefix) ----
    analysis,           \* argument: the analysis to export
    outputPrefix,       \* argument: the prefix of the file names
    fullAnalysisPath,   \* the path of the full analysis, once written
    summaryPath,        \* the path of the summary, once written
    xi,                 \* position in analysis.backlinksAnalysis of the item
                        \* the running for-of loop is at
    xpc,                \* position of the async function
    xret,               \* the object the returned promise resolves with
    xthrown             \* the error the returned promise rejects with

exportAnalysisVars == <<analysis, outputPrefix, fullAnalysisPath, summaryPath,
                        xi, xpc, xret, xthrown>>

VARIABLES
    \* ---- run(options) ----
    options,            \* argument: the options of the run
    runResults,         \* the local object results
    stage,              \* which of the four stages is running (1..4)
    stageStart,         \* history: length of written when the stage started
    rpc,                \* position of the async function
    rret                \* the summary the returned promise resolves with

runVars == <<options, runResults, stage, stageStart, rpc, rret>>

VARIABLES
    \* ---- analyzeSiteForSubmission(url) ----
    siteUrl,            \* argument url
    upc,                \* position of the async function
    uret,               \* the record the returned promise resolves with
    ufetched            \* history: what axios.get settled with

siteVars == <<siteUrl, upc, uret, ufetched>>

VARIABLES
    \* ---- analyzeBatchOfSites(sites, batchSize) ----
    sites,              \* argument: array of site records
    batchSize,          \* argument
    bi,                 \* loop variable i
    siteBatch,          \* batch: the slice being analysed
    siteBatchPromises,  \* batchPromises: one promise per batch member
    siteResults,        \* results: the records collected so far
    bpc,                \* position of the async function
    bret,               \* the array the returned promise resolves with
    sfetched            \* history: what each site's axios.get settled with

sitesVars == <<sites, batchSize, bi, siteBatch, siteBatchPromises, siteResults,
               bpc, bret, sfetched>>

VARIABLES
    \* ---- categorizeSearchResults(searchResults) ----
    cSearchResults,     \* argument searchResults: array of results
    cpc,                \* position of the function
    cret                \* the object of lists the function returns

categorizeVars == <<cSearchResults, cpc, cret>>

vars == <<verifyVars, searchVars, domainVars, findVars,
         analyzeVars, exportVars, metaVars, serpVars,
         exportAnalysisVars, runVars, multiVars, siteVars, sitesVars,
         categorizeVars>>

-----------------------------------------------------------------------------
(* Bounds of the model *)

MaxBacklinks == 3

MaxConcurrent == 2

\* longest array passed to getUniqueReferringDomains
MaxDomainBacklinks == 4

\* largest numResults passed to searchGoogle
MaxResults == 21

\* largest numResults passed to analyzeTopRankingBacklinks
MaxTopPages == 3

\* largest maxBacklinksPerUrl passed to analyzeTopRankingBacklinks
MaxPerUrl == 2

\* longest array passed to exportToJson / exportToCsv
MaxExportRecords == 2

\* longest array passed to extractMetadataFromUrls
MaxUrls == 4

\* largest value of config.request.concurrentRequests
MaxConcurrentRequests == 2

\* the default of verifyBacklinks' third parameter
DefaultMaxConcurrent == 5

\* the Custom Search API returns at most 10 results per call
PageSize == 10

\* src/modules searchGoogle: results asked of every request
MaxResultsPerRequest == 10

\* src/modules searchGoogle: no request starts beyond this rank
HardLimit == 100

\* src/modules searchGoogle: milliseconds waited after a page, and after a
\* rate-limit error
PageDelay == 1000

RateLimitDelay == 5000

\* run: numBacklinks || 50 for a domain
DefaultDomainBacklinks == 50

\* run: numBacklinks || 100 for a URL
DefaultUrlBacklinks == 100

\* run: numResults || 10 for the analysis of the competitors
DefaultTopPages == 10

\* run: numBacklinks || 100 for the analysis of the competitors
DefaultPerUrl == 100

\* longest array of keywords passed to searchMultipleKeywords
MaxKeywords == 2

\* largest numResultsPerKeyword passed to searchMultipleKeywords
MaxPerKeyword == 2

\* searchMultipleKeywords: the delay between two searches, in ms
KeywordDelay == 2000

\* most a elements of a page given to analyzeSiteForSubmission
MaxLinks == 3

\* longest array of sites passed to analyzeBatchOfSites
MaxSites == 3

\* largest batchSize passed to analyzeBatchOfSites, its default apart
MaxBatchSize == 2

\* analyzeBatchOfSites: batchSize = 5 by default
DefaultBatchSize == 5

\* longest array of search results passed to categorizeSearchResults
MaxSearchResults == 4

-----------------------------------------------------------------------------
(* Strings *)

Min(a, b) == IF a < b THEN a ELSE b

Max(a, b) == IF a > b THEN a ELSE b

\* String.prototype.startsWith / a regular expression anchored with ^
StartsWith(s, p) == Len(p) <= Len(s) /\ SubSeq(s, 1, Len(p)) = p

\* String.prototype.includes
Includes(s, sub) ==
    \E k \in 0..(Len(s) - Len(sub)) : SubSeq(s, k + 1, k + Len(sub)) = sub

\* Array.prototype.slice(start, end), negative indices counted from the end
Slice(arr, start, end) ==
    LET len  == Len(arr)
        from == IF start < 0 THEN Max(len + start, 0) ELSE Min(start, len)
        to   == IF end < 0 THEN Max(len + end, 0) ELSE Min(end, len)
    IN  SubSeq(arr, from + 1, to)

\* String.prototype.trim (the only white space of the model is " ")
RECURSIVE TrimStart(_)
TrimStart(s) == IF s # <<>> /\ Head(s) = " " THEN TrimStart(Tail(s)) ELSE s

RECURSIVE TrimEnd(_)
TrimEnd(s) ==
    IF s # <<>> /\ s[Len(s)] = " " THEN TrimEnd(SubSeq(s, 1, Len(s) - 1)) ELSE s

Trim(s) == TrimEnd(TrimStart(s))

\* length of the match of /^https?:\/\// at the start of s, 0 when none
SchemeMatchLen(s) ==
    IF StartsWith(s, <<"h", "t", "t", "p", "s", ":", "/", "/">>) THEN 8
    ELSE IF StartsWith(s, <<"h", "t", "t", "p", ":", "/", "/">>) THEN 7
    ELSE 0

\* s.replace(/^https?:\/\//, '')
ReplaceScheme(s) == SubSeq(s, SchemeMatchLen(s) + 1, Len(s))

\* s.replace(/\/$/, '')
ReplaceTrailingSlash(s) ==
    IF s # <<>> /\ s[Len(s)] = "/" THEN SubSeq(s, 1, Len(s) - 1) ELSE s

\* s.replace(/\/.*$/, ''): cut at the first "/"
ReplacePath(s) ==
    IF \E k \in 1..Len(s) : s[k] = "/"
    THEN LET first == CHOOSE k \in 1..Len(s) :
                          s[k] = "/" /\ \A m \in 1..(k - 1) : s[m] # "/"
         IN  SubSeq(s, 1, first - 1)
    ELSE s

-----------------------------------------------------------------------------
(* Sample data: the strings, pages and fetch outcomes the inputs are drawn  *)
(* from.                                                                    *)

HostT == <<"t", ".", "i", "o">>

HostX == <<"x", ".", "i", "o">>

Nofollow == <<"n", "o", "f", "o", "l", "l", "o", "w">>

SampleTargets ==
    { <<"h", "t", "t", "p", "s", ":", "/", "/", "t", ".", "i", "o", "/">>,
      <<"h", "t", "t", "p", ":", "/", "/", "t", ".", "i", "o", "/", "a", "/", "b">>,
      <<"x", ".", "i", "o", "/", "a", "/">> }

SampleBacklinks ==
    { [sourceUrl   |-> <<"h", "t", "t", "p", ":", "/", "/", "s", "1", ".", "i", "o", "/", "p">>,
       sourceTitle |-> "One", targetDomain |-> HostT, snippet |-> "first"],
      [sourceUrl   |-> <<"h", "t", "t", "p", "s", ":", "/", "/", "s", "2", ".", "i", "o", "/">>,
       sourceTitle |-> "Two", targetUrl |-> <<"t", ".", "i", "o", "/", "a">>,
       snippet |-> "second"] }

\* An anchor element: its attributes (a missing attribute is a missing field)
\* and its text content.
AnchorFoo ==
    [attrs |-> [href |-> <<"h", "t", "t", "p", "s", ":", "/", "/", "t", ".", "i", "o", "/", "f", "o", "o">>,
                rel  |-> Nofollow],
     text  |-> <<" ", "C", "l", "i", "c", "k", " ">>]

AnchorX ==
    [attrs |-> [href |-> <<"h", "t", "t", "p", ":", "/", "/", "x", ".", "i", "o", "/">>,
                rel  |-> <<"n", "o", "o", "p", "e", "n", "e", "r">>],
     text  |-> <<"x">>]

AnchorSponsored ==
    [attrs |-> [href |-> <<"h", "t", "t", "p", ":", "/", "/", "t", ".", "i", "o", "/", "a", "/", "b">>,
                rel  |-> <<"n", "o", "o", "p", "e", "n", "e", "r", " ", "n", "o", "f", "o", "l", "l", "o", "w">>],
     text  |-> <<"a", "d">>]

AnchorPlain ==
    [attrs |-> [href |-> <<"/", "/", "t", ".", "i", "o">>],
     text  |-> <<"t", " ", "i", "o">>]

AnchorNoHref ==
    [attrs |-> [rel |-> Nofollow], text |-> HostT]

AnchorLocal ==
    [attrs |-> [href |-> <<"/", "a", "b", "o", "u", "t">>], text |-> <<>>]

\* The anchors of a page, in document order.
PageOne == <<AnchorFoo>>

PageMany == <<AnchorLocal, AnchorSponsored, AnchorX, AnchorPlain, AnchorNoHref>>

PageNone == <<AnchorLocal, AnchorNoHref>>

\* What axios.get does: it resolves with a response {status, data} or rejects
\* with an error that carries a response only when the server answered.
FetchOutcomes ==
    { [kind |-> "response", response |-> [status |-> 200, data |-> PageOne]],
      [kind |-> "response", response |-> [status |-> 203, data |-> PageMany]],
      [kind |-> "response", response |-> [status |-> 200, data |-> PageNone]],
      [kind |-> "error", error |-> [message |-> "timeout of 10000ms exceeded"]],
      [kind |-> "error",
       error |-> [message  |-> "Request failed with status code 404",
                  response |-> [status |-> 404]]] }

NotFetched == [kind |-> "none"]

\* All sequences over S of length at most n
SeqUpTo(S, n) == UNION { [1..k -> S] : k \in 0..n }

-----------------------------------------------------------------------------
(* verifyBacklinks *)

\* targetUrl.replace(/^https?:\/\//, '').replace(/\/$/, '').replace(/\/.*$/, '')
TargetDomainOf(url) == ReplacePath(ReplaceTrailingSlash(ReplaceScheme(url)))

\* $(`a[href*="${v}"]`): the anchors with an href attribute that contains v,
\* in document order; the substring selector matches nothing for an empty v
SelectHrefContains(page, v) ==
    SelectSeq(page, LAMBDA el : /\ "href" \in DOMAIN el.attrs
                                /\ v # <<>>
                                /\ Includes(el.attrs.href, v))

\* mutant of IsNofollow: the rel attribute compared with 'nofollow' as a whole
IsNofollowExact(el) ==
    IF "rel" \in DOMAIN el.attrs THEN el.attrs.rel = Nofollow ELSE FALSE

\* $(el).attr('rel')?.includes('nofollow') || false
IsNofollow(el) ==
    IF "rel" \in DOMAIN el.attrs THEN Includes(el.attrs.rel, Nofollow) ELSE FALSE

\* the body of the .each callback
LinkOf(el) ==
    [href |-> el.attrs.href, anchorText |-> Trim(el.text), isNofollow |-> IsNofollow(el)]

LinksOf(page, targetDomain) ==
    LET found == SelectHrefContains(page, targetDomain)
    IN  [k \in 1..Len(found) |-> LinkOf(found[k])]

\* {...backlink, key: value, ...}: later keys win
Spread(backlink, fields) == fields @@ backlink

\* the try branch of the batch callback, after a response arrived
VerifiedRecord(backlink, response, targetDomain) ==
    LET links == LinksOf(response.data, targetDomain)
    IN  IF Len(links) > 0
        THEN Spread(backlink, [verified |-> TRUE, links |-> links,
                               statusCode |-> response.status])
        ELSE Spread(backlink, [verified |-> FALSE, links |-> <<>>,
                               statusCode |-> response.status])

\* mutant of ErrorStatus: the status carried by the error is ignored
ErrorStatusZero(error) == 0

\* error.response?.status || 0
ErrorStatus(error) ==
    IF "response" \in DOMAIN error /\ error.response.status # 0
    THEN error.response.status
    ELSE 0

\* the catch branch of the batch callback
FailedRecord(backlink, error) ==
    Spread(backlink, [verified |-> FALSE, error |-> error.message,
                      statusCode |-> ErrorStatus(error)])

\* what the promise of one batch member resolves with
BatchCallback(backlink, outcome, targetDomain) ==
    IF outcome.kind = "response"
    THEN VerifiedRecord(backlink, outcome.response, targetDomain)
    ELSE FailedRecord(backlink, outcome.error)

Pending == [state |-> "pending"]

Fulfilled(v) == [state |-> "fulfilled", value |-> v]

\* mutant of BatchResults: the values in reverse order
BatchResultsReversed(promises) ==
    [j \in DOMAIN promises |-> promises[Len(promises) + 1 - j].value]

\* line 171: what await Promise.all(batchPromises) yields: the values the
\* promises were fulfilled with, in the order of the promises
BatchResults(promises) == [j \in DOMAIN promises |-> promises[j].value]

\* mutant of PushAll: the records of failed fetches are left out
PushAllDropFailed(arr, batchResults) ==
    arr \o SelectSeq(batchResults, LAMBDA r : "error" \notin DOMAIN r)

\* verifiedBacklinks.push(...batchResults)
PushAll(arr, batchResults) == arr \o batchResults

\* mutant of LoopTest: the bound is included
LoopTestInclusive(iv, len) == iv <= len

\* line 113: i < backlinks.length
LoopTest(iv, len) == iv < len

\* mutant of BatchOf: the window is one item longer than the step
BatchOfWide(arr, iv, size) == Slice(arr, iv, iv + size + 1)

\* line 114: backlinks.slice(i, i + maxConcurrent)
BatchOf(arr, iv, size) == Slice(arr, iv, iv + size)

\* The loop test and, when it passes, the body up to the await: the batch is
\* sliced and every member's request is issued before anything is awaited.
LoopHead(list, size, iv, verified) ==
    IF LoopTest(iv, Len(list))
    THEN /\ i' = iv
         /\ batch' = BatchOf(list, iv, size)
         /\ batchPromises' = [j \in 1..Len(batch') |-> Pending]
         /\ verifiedBacklinks' = verified
         /\ vpc' = "await"
         /\ vret' = <<>>
    ELSE /\ i' = iv
         /\ batch' = <<>>
         /\ batchPromises' = <<>>
         /\ verifiedBacklinks' = verified
         /\ vpc' = "returned"
         /\ vret' = verified

\* lines 106-115: the function is entered and runs up to its first await
VerifyEnter(list, target, size) ==
    /\ backlinks' = list
    /\ targetUrl' = target
    /\ maxConcurrent' = size
    /\ fetched' = [k \in 1..Len(list) |-> NotFetched]
    /\ LoopHead(list, size, 0, <<>>)

VerifyIdle ==
    /\ backlinks = <<>>
    /\ targetUrl = <<>>
    /\ maxConcurrent = DefaultMaxConcurrent
    /\ i = 0
    /\ batch = <<>>
    /\ batchPromises = <<>>
    /\ verifiedBacklinks = <<>>
    /\ vpc = "idle"
    /\ vret = <<>>
    /\ fetched = <<>>

VerifyInit ==
    /\ backlinks \in SeqUpTo(SampleBacklinks, MaxBacklinks)
    /\ targetUrl \in SampleTargets
    /\ maxConcurrent \in (0..MaxConcurrent) \cup {DefaultMaxConcurrent}
    /\ i = 0
    /\ batch = <<>>
    /\ batchPromises = <<>>
    /\ verifiedBacklinks = <<>>
    /\ vpc = "called"
    /\ vret = <<>>
    /\ fetched = <<>>

VerifyCall ==
    /\ vpc = "called"
    /\ VerifyEnter(backlinks, targetUrl, maxConcurrent)

\* lines 116-167: one outstanding request settles and its callback runs to
\* its return; requests settle in any order
FetchSettle(j, outcome) ==
    /\ vpc = "await"
    /\ j \in DOMAIN batchPromises
    /\ batchPromises[j] = Pending
    /\ batchPromises' = [batchPromises EXCEPT
           ![j] = Fulfilled(BatchCallback(batch[j], outcome, TargetDomainOf(targetUrl)))]
    /\ fetched' = [fetched EXCEPT ![i + j] = outcome]
    /\ UNCHANGED <<backlinks, targetUrl, maxConcurrent, i, batch,
                   verifiedBacklinks, vpc, vret>>

\* lines 171-175 and the next loop test: Promise.all resolves once every
\* member has, with the values in the order of the batch
BatchJoin ==
    /\ vpc = "await"
    /\ \A j \in DOMAIN batchPromises : batchPromises[j].state = "fulfilled"
    /\ LoopHead(backlinks, maxConcurrent, i + maxConcurrent,
                PushAll(verifiedBacklinks, BatchResults(batchPromises)))
    /\ UNCHANGED <<backlinks, targetUrl, maxConcurrent, fetched>>

-----------------------------------------------------------------------------
(* searchGoogle (lib/googleSearch.js) *)

DigitChars == <<"0", "1", "2", "3", "4", "5", "6", "7", "8", "9">>

\* the decimal digits of a natural number
RECURSIVE Digits(_)
Digits(n) ==
    IF n < 10 THEN <<DigitChars[n + 1]>>
    ELSE Digits(n \div 10) \o <<DigitChars[(n % 10) + 1]>>

SampleHosts ==
    << <<"s", "1", ".", "i", "o">>, <<"s", "2", ".", "i", "o">>, <<"S", "1", ".", "i", "o">> >>

\* the item the API ranks at position rank
ApiItem(rank) ==
    LET host == SampleHosts[(rank % Len(SampleHosts)) + 1]
    IN  [kind        |-> "customsearch#result",
         title       |-> <<"T">> \o Digits(rank),
         link        |-> <<"h", "t", "t", "p", ":", "/", "/">> \o host \o <<"/">> \o Digits(rank),
         snippet     |-> <<"s", "n", "i", "p">> \o Digits(rank),
         displayLink |-> host]

\* the items of a page answering a call (start, num) with count items
ApiPage(start, count) == [k \in 1..count |-> ApiItem(start + k - 1)]

SearchErrors ==
    { [message |-> "Quota exceeded", response |-> [data |-> "rateLimitExceeded"]],
      [message |-> "socket hang up"] }

\* What customsearch.cse.list does with a call (start, num): it resolves with
\* a response whose data holds at most num items from rank start on (no
\* items field at all when there is nothing to return), or it rejects.
ApiOutcomes(start, num) ==
    { [kind |-> "response", response |-> [data |-> [items |-> ApiPage(start, c)]]] :
          c \in 0..num }
    \cup { [kind |-> "response", response |-> [data |-> [kind |-> "customsearch#search"]]] }
    \cup { [kind |-> "error", error |-> e] : e \in SearchErrors }

SampleKeywords == { <<"s", "e", "o">>, <<"k", "i", "d", "s", " ", "w", "e", "a", "r">> }

NoError == [message |-> ""]

\* mutant of NumCallsOf: one call more than whole pages fit into n
NumCallsOffByOne(n) == (n \div PageSize) + 1

\* Math.ceil(numResults / 10)
NumCallsOf(n) == (n + PageSize - 1) \div PageSize

\* mutant of RequestNum: every call asks for a full page
RequestNumFullPage(n, collected) == PageSize

\* Math.min(10, numResults - allResults.length)
RequestNum(n, collected) == Min(PageSize, n - Len(collected))

\* mutant of HasItems: a page shorter than a full page counts as the end
HasItemsFullPage(response) ==
    "items" \in DOMAIN response.data /\ Len(response.data.items) >= PageSize

\* response.data.items && response.data.items.length > 0
HasItems(response) ==
    "items" \in DOMAIN response.data /\ Len(response.data.items) > 0

\* lines 43-48: the four fields kept of every item
FormatItem(item) ==
    [title |-> item.title, link |-> item.link, snippet |-> item.snippet,
     displayLink |-> item.displayLink]

FormatResults(items) == [k \in 1..Len(items) |-> FormatItem(items[k])]

\* mutant of SearchCatch: the error is logged and what was collected returned
SearchCatchPartial(error, collected) ==
    [pc |-> "returned", thrown |-> NoError,
     ret |-> [k \in 1..Len(collected) |->
                 [title |-> collected[k].title, link |-> collected[k].link,
                  snippet |-> collected[k].snippet,
                  displayLink |-> collected[k].displayLink]]]

\* lines 53-59: the catch clause logs and rethrows the error
SearchCatch(error, collected) ==
    [pc |-> "threw", thrown |-> error, ret |-> <<>>]

\* lines 42-51: the results are formatted and returned
SearchReturn(collected) ==
    [pc |-> "returned", thrown |-> NoError, ret |-> FormatResults(collected)]

Finish(end) ==
    /\ spc' = end.pc
    /\ sthrown' = end.thrown
    /\ sret' = end.ret

\* The loop test with loop variable iv and, when it passes, the body up to the
\* await of customsearch.cse.list (the call is added to the log of calls);
\* otherwise the return.
SearchLoop(iv, ncalls, n, collected, log) ==
    /\ si' = iv
    /\ allResults' = collected
    /\ IF iv < ncalls
       THEN /\ calls' = Append(log, [start   |-> iv * PageSize + 1,
                                     num     |-> RequestNum(n, collected),
                                     outcome |-> [kind |-> "pending"]])
            /\ spc' = "await"
            /\ UNCHANGED <<sret, sthrown>>
       ELSE /\ calls' = log
            /\ Finish(SearchReturn(collected))

\* lines 12-27: the function is entered and runs up to its first await
SearchEnter(q, n) ==
    /\ keywords' = q
    /\ numResults' = n
    /\ numCalls' = NumCallsOf(n)
    /\ SearchLoop(0, NumCallsOf(n), n, <<>>, <<>>)

SearchIdle ==
    /\ keywords = <<>>
    /\ numResults = 0
    /\ numCalls = 0
    /\ si = 0
    /\ allResults = <<>>
    /\ spc = "idle"
    /\ sret = <<>>
    /\ sthrown = NoError
    /\ calls = <<>>

SearchInit ==
    /\ keywords \in SampleKeywords
    /\ numResults \in 0..MaxResults
    /\ numCalls = 0
    /\ si = 0
    /\ allResults = <<>>
    /\ spc = "called"
    /\ sret = <<>>
    /\ sthrown = NoError
    /\ calls = <<>>

SearchCall ==
    /\ spc = "called"
    /\ SearchEnter(keywords, numResults)

\* lines 27-40: the outstanding page call settles; the loop goes on to the
\* next call, or the function returns or throws
PageSettle(outcome) ==
    /\ spc = "await"
    /\ LET settled == [calls EXCEPT ![Len(calls)].outcome = outcome]
       IN  IF outcome.kind = "error"
           THEN /\ calls' = settled
                /\ Finish(SearchCatch(outcome.error, allResults))
                /\ UNCHANGED <<si, allResults>>
           ELSE IF HasItems(outcome.response)
                THEN SearchLoop(si + 1, numCalls, numResults,
                                allResults \o outcome.response.data.items, settled)
                ELSE /\ calls' = settled
                     /\ Finish(SearchReturn(allResults))
                     /\ UNCHANGED <<si, allResults>>
    /\ UNCHANGED <<keywords, numResults, numCalls>>

-----------------------------------------------------------------------------
(* getUniqueReferringDomains *)

UpperCase ==
    <<"A", "B", "C", "D", "E", "F", "G", "H", "I", "J", "K", "L", "M", "N", "O",
      "P", "Q", "R", "S", "T", "U", "V", "W", "X", "Y", "Z">>

LowerCase ==
    <<"a", "b", "c", "d", "e", "f", "g", "h", "i", "j", "k", "l", "m", "n", "o",
      "p", "q", "r", "s", "t", "u", "v", "w", "x", "y", "z">>

DecimalDigits == { DigitChars[k] : k \in DOMAIN DigitChars }

ToLowerChar(c) ==
    IF \E k \in DOMAIN UpperCase : UpperCase[k] = c
    THEN LowerCase[CHOOSE k \in DOMAIN UpperCase : UpperCase[k] = c]
    ELSE c

ToLower(s) == [k \in DOMAIN s |-> ToLowerChar(s[k])]

\* evaluation helper (models no code): F applied to the value of v, which is
\* evaluated once
Bind(v, F(_)) == CHOOSE r \in { F(x) : x \in {v} } : TRUE

\* the first position of s that holds a character of cs, Len(s) + 1 when none
IndexOfAny(str, cs) ==
    Bind(str, LAMBDA s :
        IF \E k \in DOMAIN s : s[k] \in cs
        THEN CHOOSE k \in DOMAIN s : s[k] \in cs /\ \A m \in 1..(k - 1) : s[m] \notin cs
        ELSE Len(s) + 1)

\* the last position of s that holds c, 0 when none
LastIndexOf(str, c) ==
    Bind(str, LAMBDA s :
        IF \E k \in DOMAIN s : s[k] = c
        THEN CHOOSE k \in DOMAIN s : s[k] = c /\ \A m \in (k + 1)..Len(s) : s[m] # c
        ELSE 0)

RECURSIVE SkipSlashes(_)
SkipSlashes(s) ==
    IF s # <<>> /\ Head(s) \in {"/", "\\"} THEN SkipSlashes(Tail(s)) ELSE s

UrlFailure == [ok |-> FALSE]

SchemeChars ==
    { LowerCase[m] : m \in DOMAIN LowerCase } \cup DecimalDigits \cup {"+", "-", "."}

\* the scheme a URL string starts with: the lower-cased text before the first
\* ":", a letter followed by letters, digits, "+", "-" or "."; <<>> when the
\* string starts with no scheme
UrlScheme(str) ==
    Bind(ToLower(SubSeq(str, 1, IndexOfAny(str, {":"}) - 1)), LAMBDA scheme :
        IF /\ IndexOfAny(str, {":"}) <= Len(str)
           /\ scheme # <<>>
           /\ scheme[1] \in { LowerCase[m] : m \in DOMAIN LowerCase }
           /\ \A k \in DOMAIN scheme : scheme[k] \in SchemeChars
        THEN scheme
        ELSE <<>>)

\* the host and the port of an authority: what follows the credentials, split
\* at the first ":"
UrlHostPort(authority) ==
    Bind(SubSeq(authority, LastIndexOf(authority, "@") + 1, Len(authority)),
         LAMBDA hostport :
             Bind(IndexOfAny(hostport, {":"}), LAMBDA colon :
                 [host |-> SubSeq(hostport, 1, colon - 1),
                  port |-> SubSeq(hostport, colon + 1, Len(hostport))]))

\* the authority at the start of str: the text before the first "/", "?",
\* "#" or "\"
UrlAuthority(str) == SubSeq(str, 1, IndexOfAny(str, {"/", "?", "#", "\\"}) - 1)

\* the hostname of an http or https URL, rest being what follows "http:"
\* or "https:": any slashes are skipped, the host must not be empty, and it
\* is lower-cased
SpecialHostname(rest) ==
    Bind(UrlHostPort(UrlAuthority(SkipSlashes(rest))), LAMBDA hp :
        IF \/ hp.host = <<>>
           \/ \E k \in DOMAIN hp.host : hp.host[k] = " "
           \/ \E k \in DOMAIN hp.port : hp.port[k] \notin DecimalDigits
        THEN UrlFailure
        ELSE [ok |-> TRUE, hostname |-> ToLower(hp.host)])

\* the hostname of a URL of another scheme: empty unless "//" follows the
\* scheme
OtherHostname(rest) ==
    IF ~StartsWith(rest, <<"/", "/">>)
    THEN [ok |-> TRUE, hostname |-> <<>>]
    ELSE Bind(UrlHostPort(UrlAuthority(SubSeq(rest, 3, Len(rest)))), LAMBDA hp :
             IF \/ \E k \in DOMAIN hp.host : hp.host[k] = " "
                \/ \E k \in DOMAIN hp.port : hp.port[k] \notin DecimalDigits
             THEN UrlFailure
             ELSE [ok |-> TRUE, hostname |-> hp.host])

\* The hostname new URL(input) has, or failure when the constructor throws.
\* No base URL is given, so a string without a scheme is not a URL.
UrlHostname(input) ==
    Bind(Trim(input), LAMBDA str :
        Bind(UrlScheme(str), LAMBDA scheme :
            IF scheme = <<>> THEN UrlFailure
            ELSE IF scheme \in { <<"h", "t", "t", "p">>, <<"h", "t", "t", "p", "s">> }
                 THEN SpecialHostname(SubSeq(str, Len(scheme) + 2, Len(str)))
                 ELSE OtherHostname(SubSeq(str, Len(scheme) + 2, Len(str)))))

Undefined == [jsType |-> "undefined"]

\* backlink.sourceUrl: undefined for a value without that property
GetSourceUrl(backlink) ==
    IF "sourceUrl" \in DOMAIN backlink
    THEN [jsType |-> "string", chars |-> backlink.sourceUrl]
    ELSE Undefined

\* the string the URL constructor makes of its argument
ToUrlString(v) ==
    IF v = Undefined THEN <<"u", "n", "d", "e", "f", "i", "n", "e", "d">> ELSE v.chars

JsNull == [jsType |-> "null"]

\* lines 85-91: the map callback: the hostname, or null when the URL
\* constructor throws
DomainOf(backlink) ==
    LET url == UrlHostname(ToUrlString(GetSourceUrl(backlink)))
    IN  IF url.ok THEN [jsType |-> "string", chars |-> url.hostname]
        ELSE JsNull

\* mutant of Unique: the last occurrence of a value is the one kept
RECURSIVE UniqueKeepLast(_)
UniqueKeepLast(arr) ==
    IF arr = <<>> THEN <<>>
    ELSE IF \E k \in 2..Len(arr) : arr[k] = Head(arr)
         THEN UniqueKeepLast(Tail(arr))
         ELSE <<Head(arr)>> \o UniqueKeepLast(Tail(arr))

\* mutant of Unique: nothing is removed
UniqueNothing(arr) == arr

\* [...new Set(arr)]: a Set keeps the first insertion of every value
RECURSIVE Unique(_)
Unique(arr) ==
    IF arr = <<>> THEN <<>>
    ELSE LET init == Unique(SubSeq(arr, 1, Len(arr) - 1))
             last == arr[Len(arr)]
         IN  IF \E k \in DOMAIN init : init[k] = last THEN init ELSE Append(init, last)

\* lines 83-96; the result is how the call completes: it returns an array of
\* strings, or it throws when a callback throws
GetUniqueReferringDomains(arr) ==
    LET mapped  == [k \in DOMAIN arr |-> DomainOf(arr[k])]
        domains == SelectSeq(mapped, LAMBDA d : d # JsNull)
    IN  IF \E k \in DOMAIN mapped : mapped[k].jsType = "throw"
        THEN [pc |-> "threw", value |-> <<>>]
        ELSE [pc |-> "returned",
              value |-> Unique([k \in DOMAIN domains |-> domains[k].chars])]

\* a JavaScript string seen as a value with properties: it has no sourceUrl
BoxString(chars) == [jsType |-> "string", chars |-> chars]

SampleSourceUrls ==
    { <<"h", "t", "t", "p", ":", "/", "/", "s", "1", ".", "i", "o", "/", "p">>,
      <<"h", "t", "t", "p", "s", ":", "/", "/", "S", "1", ".", "i", "o", "/">>,
      <<"h", "t", "t", "p", ":", "/", "/", "s", "2", ".", "i", "o", ":", "8", "0", "8", "0", "/", "x", "?", "y">>,
      <<"s", "3", ".", "i", "o", "/", "p", "a", "g", "e">>,
      <<"m", "a", "i", "l", "t", "o", ":", "a", "@", "s", "4", ".", "i", "o">> }

DomainsIdle ==
    /\ dArg = <<>>
    /\ dpc = "idle"
    /\ dret = <<>>
    /\ dretAgain = <<>>
    /\ dretTwice = <<>>

DomainsInit ==
    /\ dArg \in SeqUpTo({ [sourceUrl |-> u, sourceTitle |-> "t", snippet |-> "s",
                           targetUrl |-> HostT] : u \in SampleSourceUrls },
                        MaxDomainBacklinks)
    /\ dpc = "called"
    /\ dret = <<>>
    /\ dretAgain = <<>>
    /\ dretTwice = <<>>

\* getUniqueReferringDomains(backlinks)
DomainsCall ==
    /\ dpc = "called"
    /\ LET done == GetUniqueReferringDomains(dArg)
       IN  dpc' = done.pc /\ dret' = done.value
    /\ UNCHANGED <<dArg, dretAgain, dretTwice>>

\* getUniqueReferringDomains(getUniqueReferringDomains(backlinks))
DomainsAgain ==
    /\ dpc = "returned"
    /\ LET done == GetUniqueReferringDomains([k \in DOMAIN dret |-> BoxString(dret[k])])
       IN  dpc' = (IF done.pc = "returned" THEN "reapplied" ELSE done.pc)
           /\ dretAgain' = done.value
    /\ UNCHANGED <<dArg, dret, dretTwice>>

\* getUniqueReferringDomains([...backlinks, ...backlinks])
DomainsTwice ==
    /\ dpc = "reapplied"
    /\ LET done == GetUniqueReferringDomains(dArg \o dArg)
       IN  dpc' = (IF done.pc = "returned" THEN "done" ELSE done.pc)
           /\ dretTwice' = done.value
    /\ UNCHANGED <<dArg, dret, dretAgain>>

-----------------------------------------------------------------------------
(* findBacklinks and findBacklinksForUrl *)

Quote == <<"\"">>

\* mutant of CleanDomainOf: the trailing slash is kept
CleanDomainKeepSlash(domain) == ReplaceScheme(domain)

\* line 19: domain.replace(/^https?:\/\//, '').replace(/\/$/, '')
CleanDomainOf(domain) == ReplaceTrailingSlash(ReplaceScheme(domain))

\* line 23: `"${cleanDomain}" -site:${cleanDomain}`
DomainQuery(cleanDomain) ==
    Quote \o cleanDomain \o Quote \o <<" ", "-", "s", "i", "t", "e", ":">> \o cleanDomain

\* line 56: `"${url}"`
UrlQuery(url) == Quote \o url \o Quote

\* lines 28-33: the backlink made of one search result
DomainBacklink(result, cleanDomain) ==
    [sourceUrl |-> result.link, sourceTitle |-> result.title,
     targetDomain |-> cleanDomain, snippet |-> result.snippet]

\* lines 61-66
UrlBacklink(result, url) ==
    [sourceUrl |-> result.link, sourceTitle |-> result.title,
     targetUrl |-> url, snippet |-> result.snippet]

SampleDomains ==
    { <<"h", "t", "t", "p", "s", ":", "/", "/", "t", ".", "i", "o", "/">>,
      <<"h", "t", "t", "p", ":", "/", "/", "w", ".", "t", ".", "i", "o">>,
      <<"t", ".", "i", "o", "/", "/">>,
      <<"t", ".", "i", "o">> }

SampleUrls ==
    { <<"h", "t", "t", "p", "s", ":", "/", "/", "t", ".", "i", "o", "/", "a", "/">>,
      <<"t", ".", "i", "o", "/", "a", "?", "b">> }

FindIdle ==
    /\ fname = "none"
    /\ farg = <<>>
    /\ fnum = 0
    /\ fpc = "idle"
    /\ fret = <<>>
    /\ fthrown = NoError

FindInit ==
    /\ \/ fname = "findBacklinks" /\ farg \in SampleDomains
       \/ fname = "findBacklinksForUrl" /\ farg \in SampleUrls
    /\ fnum \in 0..MaxResults
    /\ fpc = "called"
    /\ fret = <<>>
    /\ fthrown = NoError

\* lines 14-25 / 51-58: the finder is entered: the query is built and
\* searchGoogle is called, which runs up to its first await
FindEnter(name, arg, num) ==
    /\ fname' = name
    /\ farg' = arg
    /\ fnum' = num
    /\ IF name = "findBacklinks"
       THEN SearchEnter(DomainQuery(CleanDomainOf(arg)), num)
       ELSE SearchEnter(UrlQuery(arg), num)
    /\ fpc' = "await"
    /\ fret' = <<>>
    /\ fthrown' = NoError

FindCall ==
    /\ fpc = "called"
    /\ FindEnter(fname, farg, fnum)

\* lines 27-36 / 60-69: searchGoogle returned and its results are mapped
FindReturn ==
    /\ fpc = "await"
    /\ spc = "returned"
    /\ fret' = IF fname = "findBacklinks"
               THEN [k \in DOMAIN sret |-> DomainBacklink(sret[k], CleanDomainOf(farg))]
               ELSE [k \in DOMAIN sret |-> UrlBacklink(sret[k], farg)]
    /\ fpc' = "returned"
    /\ UNCHANGED <<fname, farg, fnum, fthrown>>

\* mutant of FindRethrow: a new error with the message of the one caught
FindRethrowWrapped(error) == [message |-> error.message]

\* lines 40 / 73: throw error
FindRethrow(error) == error

\* lines 38-41 / 71-74: searchGoogle threw; the error is logged and rethrown
FindCatch ==
    /\ fpc = "await"
    /\ spc = "threw"
    /\ fthrown' = FindRethrow(sthrown)
    /\ fpc' = "threw"
    /\ UNCHANGED <<fname, farg, fnum, fret>>

-----------------------------------------------------------------------------
(* analyzeSERP and analyzeTopRankingBacklinks (lib/backlinkAnalyzer.js) *)

\* mutant of SerpPosition: positions counted from 0
SerpPositionZeroBased(index) == index

\* serpAnalyzer line 20: position: index + 1 (index is 0-based)
SerpPosition(index) == index + 1

\* serpAnalyzer lines 19-25: the SERP record of every search result
SerpData(searchResults) ==
    [k \in 1..Len(searchResults) |->
        [position   |-> SerpPosition(k - 1),
         url        |-> searchResults[k].link,
         title      |-> searchResults[k].title,
         displayUrl |-> searchResults[k].displayLink,
         snippet    |-> searchResults[k].snippet]]

\* lines 32-42: the record pushed for a page and its backlinks
AnalysisRecord(page, found) ==
    LET uniqueDomains == GetUniqueReferringDomains(found).value
    IN  [position           |-> page.position,
         url                |-> page.url,
         title              |-> page.title,
         backlinksCount     |-> Len(found),
         uniqueDomainsCount |-> Len(uniqueDomains),
         backlinks          |-> found,
         uniqueDomains      |-> uniqueDomains]

\* no object: the promise did not resolve
NoAnalysis == [jsType |-> "undefined"]

\* mutant of AnalyzeCatch: the failed page is skipped and what was built is
\* returned
AnalyzeCatchPartial(error, kw, pages, built) ==
    [pc |-> "returned", thrown |-> NoError,
     ret |-> [keyword |-> kw, topPages |-> pages, backlinksAnalysis |-> built]]

\* lines 53-56: the catch clause logs and rethrows the error
AnalyzeCatch(error, kw, pages, built) ==
    [pc |-> "threw", thrown |-> error, ret |-> NoAnalysis]

\* lines 47-51
AnalyzeReturn(kw, pages, built) ==
    [pc |-> "returned", thrown |-> NoError,
     ret |-> [keyword |-> kw, topPages |-> pages, backlinksAnalysis |-> built]]

AnalyzeFinish(end) ==
    /\ apc' = end.pc
    /\ athrown' = end.thrown
    /\ aret' = end.ret

\* mutant of PageAt: the pages are taken from the last rank down
PageAtFromEnd(pages, iv) == pages[Len(pages) - iv]

\* lines 24-25: const page = topPages[i] (i is 0-based)
PageAt(pages, iv) == pages[iv + 1]

\* lines 24-29: the loop test with loop variable iv and, when it passes, the
\* body up to the await of findBacklinksForUrl (the lookup is added to the log
\* of lookups); otherwise the return
AnalyzeLoop(iv, pages, built, log) ==
    /\ ai' = iv
    /\ backlinksAnalysis' = built
    /\ IF iv < Len(pages)
       THEN /\ lookups' = Append(log, [url     |-> PageAt(pages, iv).url,
                                      outcome |-> [kind |-> "pending"]])
            /\ FindEnter("findBacklinksForUrl", PageAt(pages, iv).url,
                         maxBacklinksPerUrl)
            /\ apc' = "find"
            /\ UNCHANGED <<aret, athrown>>
       ELSE /\ lookups' = log
            /\ AnalyzeFinish(AnalyzeReturn(keyword, pages, built))
            /\ UNCHANGED <<searchVars, findVars>>

AnalyzeIdle ==
    /\ keyword = <<>>
    /\ aNumResults = 0
    /\ maxBacklinksPerUrl = 0
    /\ topPages = <<>>
    /\ ai = 0
    /\ backlinksAnalysis = <<>>
    /\ apc = "idle"
    /\ aret = NoAnalysis
    /\ athrown = NoError
    /\ lookups = <<>>

AnalyzeInit ==
    /\ keyword \in SampleKeywords
    /\ aNumResults \in 0..MaxTopPages
    /\ maxBacklinksPerUrl \in 0..MaxPerUrl
    /\ topPages = <<>>
    /\ ai = 0
    /\ backlinksAnalysis = <<>>
    /\ apc = "called"
    /\ aret = NoAnalysis
    /\ athrown = NoError
    /\ lookups = <<>>

\* lines 14-19 and serpAnalyzer lines 11-16: the function is entered;
\* analyzeSERP is called and calls searchGoogle, which runs up to its first
\* await
AnalyzeEnter(kw, n, perUrl) ==
    /\ keyword' = kw
    /\ aNumResults' = n
    /\ maxBacklinksPerUrl' = perUrl
    /\ topPages' = <<>>
    /\ ai' = 0
    /\ backlinksAnalysis' = <<>>
    /\ aret' = NoAnalysis
    /\ athrown' = NoError
    /\ lookups' = <<>>
    /\ SearchEnter(kw, n)
    /\ apc' = "serp"

AnalyzeCall ==
    /\ apc = "called"
    /\ AnalyzeEnter(keyword, aNumResults, maxBacklinksPerUrl)
    /\ UNCHANGED findVars

\* serpAnalyzer lines 19-28 and lines 19-29: analyzeSERP returns the SERP
\* records and the loop over them starts
SerpReturn ==
    /\ apc = "serp"
    /\ spc = "returned"
    /\ topPages' = SerpData(sret)
    /\ AnalyzeLoop(0, SerpData(sret), <<>>, lookups)
    /\ UNCHANGED <<keyword, aNumResults, maxBacklinksPerUrl>>

\* serpAnalyzer lines 30-33 and lines 53-56: searchGoogle threw; analyzeSERP
\* rethrows and so does analyzeTopRankingBacklinks
SerpCatch ==
    /\ apc = "serp"
    /\ spc = "threw"
    /\ AnalyzeFinish(AnalyzeCatch(sthrown, keyword, topPages, backlinksAnalysis))
    /\ UNCHANGED <<keyword, aNumResults, maxBacklinksPerUrl, topPages, ai,
                   backlinksAnalysis, lookups, searchVars, findVars>>

\* lines 29-45: findBacklinksForUrl returned; the record of the page is
\* pushed and the loop goes on
AnalyzePush ==
    /\ apc = "find"
    /\ fpc = "returned"
    /\ AnalyzeLoop(ai + 1, topPages,
                   Append(backlinksAnalysis, AnalysisRecord(PageAt(topPages, ai), fret)),
                   [lookups EXCEPT ![Len(lookups)].outcome =
                       [kind |-> "returned", backlinks |-> fret]])
    /\ UNCHANGED <<keyword, aNumResults, maxBacklinksPerUrl, topPages>>

\* lines 29 and 53-56: findBacklinksForUrl threw; the error is logged and
\* rethrown
AnalyzeFindFailed ==
    /\ apc = "find"
    /\ fpc = "threw"
    /\ lookups' = [lookups EXCEPT ![Len(lookups)].outcome =
                       [kind |-> "threw", error |-> fthrown]]
    /\ AnalyzeFinish(AnalyzeCatch(fthrown, keyword, topPages, backlinksAnalysis))
    /\ UNCHANGED <<keyword, aNumResults, maxBacklinksPerUrl, topPages, ai,
                   backlinksAnalysis, searchVars, findVars>>

-----------------------------------------------------------------------------
(* exportToJson and exportToCsv (lib/exporters.js) *)

\* A JavaScript value passed as data: an array of objects, a plain object or
\* undefined
JsArray(items) == [jsType |-> "array", items |-> items]

JsObject(fields) == [jsType |-> "object", fields |-> fields]

\* Array.isArray(data)
IsArray(data) == data.jsType = "array"

\* config.output.jsonDir and config.output.csvDir (config/config.js)
JsonDir == <<"j", "s", "o", "n">>

CsvDir == <<"c", "s", "v">>

DotJson == <<".", "j", "s", "o", "n">>

DotCsv == <<".", "c", "s", "v">>

\* String.prototype.endsWith
EndsWith(s, suffix) ==
    /\ Len(suffix) <= Len(s)
    /\ SubSeq(s, Len(s) - Len(suffix) + 1, Len(s)) = suffix

\* lines 20-22 / 55-57: the extension is added if not present
WithExtension(filename, ext) ==
    IF EndsWith(filename, ext) THEN filename ELSE filename \o ext

\* path.join(dir, filename)
PathJoin(dir, filename) == dir \o <<"/">> \o filename

\* lines 24 / 59
FilePath(name, filename) ==
    IF name = "exportToJson"
    THEN PathJoin(JsonDir, WithExtension(filename, DotJson))
    ELSE PathJoin(CsvDir, WithExtension(filename, DotCsv))

\* line 88: the columns are the keys of the first processed record (lines
\* 68-85 turn every value into a cell and keep the keys)
CsvHeader(items) == DOMAIN items[1]

\* what writeRecords writes: for every record the columns it has a value for
CsvFile(path, items) ==
    [op     |-> "writeRecords",
     path   |-> path,
     header |-> CsvHeader(items),
     rows   |-> [k \in DOMAIN items |-> DOMAIN items[k] \cap CsvHeader(items)]]

JsonFile(path, data) == [op |-> "writeJson", path |-> path, data |-> data]

NotAnArrayError == [message |-> "Data must be an array for CSV export"]

EmptyDataError == [message |-> "Cannot export empty data to CSV"]

\* the errors fs.ensureDir, fs.writeJson and writeRecords reject with
FsErrors == { [message |-> "EACCES: permission denied", code |-> "EACCES"] }

FsOutcomes == { [kind |-> "done"] } \cup { [kind |-> "error", error |-> e] : e \in FsErrors }

NoPath == <<>>

\* lines 31-34 / 101-104: the catch clause logs and rethrows the error
ExportCatch(error) == [pc |-> "threw", thrown |-> error, ret |-> NoPath]

\* lines 30 / 100
ExportReturn(path) == [pc |-> "returned", thrown |-> NoError, ret |-> path]

ExportFinish(end) ==
    /\ epc' = end.pc
    /\ ethrown' = end.thrown
    /\ eret' = end.ret

\* lines 14-17 / 44-52: the exporter is entered and runs up to the await of
\* fs.ensureDir; exportToCsv first throws if data is not an array
ExportEnter(name, data, filename) ==
    /\ ename' = name
    /\ eData' = data
    /\ eFilename' = filename
    /\ IF name = "exportToCsv" /\ ~IsArray(data)
       THEN ExportFinish(ExportCatch(NotAnArrayError))
       ELSE /\ epc' = "ensureDir"
            /\ eret' = NoPath
            /\ ethrown' = NoError
    /\ UNCHANGED written

ExportIdle ==
    /\ ename = "none"
    /\ eData = Undefined
    /\ eFilename = <<>>
    /\ epc = "idle"
    /\ eret = NoPath
    /\ ethrown = NoError
    /\ written = <<>>

\* records as the pipeline exports them: the metadata of a page, the metadata
\* record of a failed page, a verified backlink
SampleExportRecords ==
    { [url |-> <<"a">>, title |-> <<"T">>, description |-> <<>>, keywords |-> <<>>,
       h1Tags |-> <<>>, h2Tags |-> <<>>, h3Tags |-> <<>>],
      [url |-> <<"b">>, error |-> "timeout of 10000ms exceeded", title |-> <<>>,
       description |-> <<>>, keywords |-> <<>>,
       h1Tags |-> <<>>, h2Tags |-> <<>>, h3Tags |-> <<>>],
      [sourceUrl |-> <<"c">>, sourceTitle |-> "One", targetDomain |-> HostT,
       snippet |-> "first", verified |-> FALSE, links |-> <<>>, statusCode |-> 200] }

SampleExportData ==
    { JsArray(items) : items \in SeqUpTo(SampleExportRecords, MaxExportRecords) }
    \cup { Undefined, JsObject([keyword |-> <<"s", "e", "o">>]) }

SampleFilenames == { <<"o", "u", "t">>, <<"o", "u", "t", ".", "c", "s", "v">> }

ExportInit ==
    /\ ename \in {"exportToJson", "exportToCsv"}
    /\ eData \in SampleExportData
    /\ eFilename \in SampleFilenames
    /\ epc = "called"
    /\ eret = NoPath
    /\ ethrown = NoError
    /\ written = <<>>

ExportCall ==
    /\ epc = "called"
    /\ ExportEnter(ename, eData, eFilename)

\* lines 17-27 / 52-97: fs.ensureDir settled; the path is built, exportToCsv
\* throws on empty data, and the write is started
EnsureDirSettle(outcome) ==
    /\ epc = "ensureDir"
    /\ IF outcome.kind = "error"
       THEN /\ ExportFinish(ExportCatch(outcome.error))
            /\ UNCHANGED written
       ELSE /\ written' = Append(written,
                              [op  |-> "ensureDir",
                               dir |-> IF ename = "exportToJson" THEN JsonDir ELSE CsvDir])
            /\ IF ename = "exportToCsv" /\ Len(eData.items) = 0
               THEN ExportFinish(ExportCatch(EmptyDataError))
               ELSE /\ epc' = "write"
                    /\ UNCHANGED <<eret, ethrown>>
    /\ UNCHANGED <<ename, eData, eFilename>>

\* lines 27-30 / 97-100: the write settled; the path is returned
WriteSettle(outcome) ==
    /\ epc = "write"
    /\ IF outcome.kind = "error"
       THEN /\ ExportFinish(ExportCatch(outcome.error))
            /\ UNCHANGED written
       ELSE /\ written' = Append(written,
                              IF ename = "exportToJson"
                              THEN JsonFile(FilePath(ename, eFilename), eData)
                              ELSE CsvFile(FilePath(ename, eFilename), eData.items))
            /\ ExportFinish(ExportReturn(FilePath(ename, eFilename)))
    /\ UNCHANGED <<ename, eData, eFilename>>

-----------------------------------------------------------------------------
(* extractMetadata and extractMetadataFromUrls (lib/metadataExtractor.js) *)

\* A fetched document as the selectors of extractMetadata see it: the texts
\* of its title elements, the content attributes of its description and
\* keywords meta elements (a missing element or attribute is a missing
\* field), and the texts of its headings, all in document order
DocFull ==
    [titles |-> << <<" ", "H", "o", "m", "e", " ">> >>,
     meta   |-> [description |-> <<"d", " ", "e">>, keywords |-> <<>>],
     h1     |-> << <<" ", "A", " ">>, <<" ", " ">>, <<"B">> >>,
     h2     |-> << <<"C">> >>,
     h3     |-> <<>>]

DocBare ==
    [titles |-> <<>>,
     meta   |-> [keywords |-> <<"k">>],
     h1     |-> <<>>,
     h2     |-> << <<>> >>,
     h3     |-> << <<"D", " ">> >>]

\* What axios.get does for extractMetadata
MetaFetchOutcomes ==
    { [kind |-> "response", response |-> [status |-> 200, data |-> DocFull]],
      [kind |-> "response", response |-> [status |-> 200, data |-> DocBare]],
      [kind |-> "error", error |-> [message |-> "timeout of 10000ms exceeded"]],
      [kind |-> "error",
       error |-> [message  |-> "Request failed with status code 404",
                  response |-> [status |-> 404]]] }

\* $(sel).text(): the texts of the selected elements, concatenated
RECURSIVE ConcatText(_)
ConcatText(texts) ==
    IF texts = <<>> THEN <<>> ELSE Head(texts) \o ConcatText(Tail(texts))

\* $('meta[name="..."]').attr('content') || ''
MetaContent(doc, name) ==
    IF name \in DOMAIN doc.meta THEN doc.meta[name] ELSE <<>>

\* lines 38-51: the trimmed texts of the headings, the empty ones left out
HeadingTexts(texts) ==
    SelectSeq([k \in DOMAIN texts |-> Trim(texts[k])], LAMBDA t : t # <<>>)

\* lines 23-53: the metadata of a fetched document
ExtractedMetadata(url, doc) ==
    [url         |-> url,
     title       |-> Trim(ConcatText(doc.titles)),
     description |-> MetaContent(doc, "description"),
     keywords    |-> MetaContent(doc, "keywords"),
     h1Tags      |-> HeadingTexts(doc.h1),
     h2Tags      |-> HeadingTexts(doc.h2),
     h3Tags      |-> HeadingTexts(doc.h3)]

\* mutant of FailedMetadata: the failed page is reported by its error alone
FailedMetadataErrorOnly(url, error) == [error |-> error.message]

\* lines 55-68: the catch clause returns a partial record
FailedMetadata(url, error) ==
    [url |-> url, error |-> error.message, title |-> <<>>, description |-> <<>>,
     keywords |-> <<>>, h1Tags |-> <<>>, h2Tags |-> <<>>, h3Tags |-> <<>>]

\* what the promise extractMetadata(url) resolves with
ExtractMetadata(url, outcome) ==
    IF outcome.kind = "response"
    THEN ExtractedMetadata(url, outcome.response.data)
    ELSE FailedMetadata(url, outcome.error)

\* lines 84-86 and 95: the loop test and, when it passes, the body up to the
\* await: every member's extractMetadata runs up to its axios.get
MetaLoopHead(list, iv, collected) ==
    IF LoopTest(iv, Len(list))
    THEN /\ mi' = iv
         /\ mbatch' = BatchOf(list, iv, concurrentRequests)
         /\ mBatchPromises' = [j \in 1..Len(mbatch') |-> Pending]
         /\ results' = collected
         /\ mpc' = "await"
         /\ mret' = <<>>
    ELSE /\ mi' = iv
         /\ mbatch' = <<>>
         /\ mBatchPromises' = <<>>
         /\ results' = collected
         /\ mpc' = "returned"
         /\ mret' = collected

\* lines 77-86: the function is entered with its argument
MetaEnter(list) ==
    /\ urls' = list
    /\ mfetched' = [k \in 1..Len(list) |-> NotFetched]
    /\ MetaLoopHead(list, 0, <<>>)
    /\ UNCHANGED concurrentRequests

SampleMetaUrls ==
    { <<"h", "t", "t", "p", ":", "/", "/", "s", "1", ".", "i", "o", "/", "1">>,
      <<"h", "t", "t", "p", ":", "/", "/", "s", "2", ".", "i", "o", "/", "2">> }

MetaIdle ==
    /\ urls = <<>>
    /\ concurrentRequests = MaxConcurrentRequests
    /\ mi = 0
    /\ mbatch = <<>>
    /\ mBatchPromises = <<>>
    /\ results = <<>>
    /\ mpc = "idle"
    /\ mret = <<>>
    /\ mfetched = <<>>

MetaInit ==
    /\ urls \in SeqUpTo(SampleMetaUrls, MaxUrls)
    /\ concurrentRequests \in 1..MaxConcurrentRequests
    /\ mi = 0
    /\ mbatch = <<>>
    /\ mBatchPromises = <<>>
    /\ results = <<>>
    /\ mpc = "called"
    /\ mret = <<>>
    /\ mfetched = <<>>

MetaCall ==
    /\ mpc = "called"
    /\ MetaEnter(urls)

\* lines 12-68: the axios.get of one batch member settles and its
\* extractMetadata runs to its return; requests settle in any order
MetaFetchSettle(j, outcome) ==
    /\ mpc = "await"
    /\ j \in DOMAIN mBatchPromises
    /\ mBatchPromises[j] = Pending
    /\ mBatchPromises' = [mBatchPromises EXCEPT
           ![j] = Fulfilled(ExtractMetadata(mbatch[j], outcome))]
    /\ mfetched' = [mfetched EXCEPT ![mi + j] = outcome]
    /\ UNCHANGED <<urls, concurrentRequests, mi, mbatch, results, mpc, mret>>

\* lines 89-95 and the next loop test: Promise.all resolves once every member
\* has, with the values in the order of the batch
MetaBatchJoin ==
    /\ mpc = "await"
    /\ \A j \in DOMAIN mBatchPromises : mBatchPromises[j].state = "fulfilled"
    /\ MetaLoopHead(urls, mi + concurrentRequests,
                    PushAll(results, BatchResults(mBatchPromises)))
    /\ UNCHANGED <<urls, concurrentRequests, mfetched>>

-----------------------------------------------------------------------------
(* searchGoogle of src/modules/dataExporter.js: the SERP search that logs a *)
(* failed page and continues                                               *)

\* the errors customsearch.cse.list rejects with; code is the HTTP status
SerpErrors ==
    { [message |-> "Quota exceeded", code |-> 429],
      [message |-> "Forbidden", code |-> 403],
      [message |-> "socket hang up"] }

\* What customsearch.cse.list does with a call (start, num): a page of at
\* most num items from rank start on (none, one or all of them), a response
\* without items field, or an error
SerpApiOutcomes(start, num) ==
    { [kind |-> "response", response |-> [data |-> [items |-> ApiPage(start, c)]]] :
          c \in {0, 1, num} }
    \cup { [kind |-> "response", response |-> [data |-> [kind |-> "customsearch#search"]]] }
    \cup { [kind |-> "error", error |-> e] : e \in SerpErrors }

\* mutant of IsRateLimit: only 429 counts
IsRateLimit429Only(error) == "code" \in DOMAIN error /\ error.code = 429

\* line 256: error.code === 429 || error.code === 403
IsRateLimit(error) == "code" \in DOMAIN error /\ error.code \in {429, 403}

\* lines 263-270: the items formatted and returned
SerpReturnValue(items) == FormatResults(items)

\* mutant of NextRequest: the same request is made again
NextRequestAgain(iv) == iv

\* line 232: i++
NextRequest(iv) == iv + 1

\* lines 232-245 and 263-270: the loop test with loop variable iv and, when it
\* passes and the start index is within the hard limit, the body up to the
\* await of customsearch.cse.list; otherwise the return
SerpLoop(iv, nreq, collected, log) ==
    /\ gi' = iv
    /\ gSearchResults' = collected
    /\ IF iv < nreq /\ ~(iv * MaxResultsPerRequest + 1 > HardLimit)
       THEN /\ glog' = Append(log, [ev      |-> "call",
                                    start   |-> iv * MaxResultsPerRequest + 1,
                                    num     |-> MaxResultsPerRequest,
                                    outcome |-> [kind |-> "pending"]])
            /\ gpc' = "await"
            /\ gret' = <<>>
       ELSE /\ glog' = log
            /\ gpc' = "returned"
            /\ gret' = SerpReturnValue(collected)

\* lines 222-245: the function is entered and runs up to its first await
SerpEnter(q, n) ==
    /\ gKeyword' = q
    /\ gNumResults' = n
    /\ numRequests' = (n + MaxResultsPerRequest - 1) \div MaxResultsPerRequest
    /\ SerpLoop(0, (n + MaxResultsPerRequest - 1) \div MaxResultsPerRequest, <<>>, <<>>)

SerpIdle ==
    /\ gKeyword = <<>>
    /\ gNumResults = 0
    /\ numRequests = 0
    /\ gi = 0
    /\ gSearchResults = <<>>
    /\ gpc = "idle"
    /\ gret = <<>>
    /\ glog = <<>>

SerpInit ==
    /\ gKeyword \in SampleKeywords
    /\ gNumResults \in 0..MaxResults
    /\ numRequests = 0
    /\ gi = 0
    /\ gSearchResults = <<>>
    /\ gpc = "called"
    /\ gret = <<>>
    /\ glog = <<>>

SerpCall ==
    /\ gpc = "called"
    /\ SerpEnter(gKeyword, gNumResults)

\* lines 237-260: the outstanding page call settles. A response's items are
\* collected and the fixed delay is awaited; an error is logged, and a
\* rate-limit error awaits the longer delay, any other error goes straight to
\* the next iteration
SerpPageSettle(outcome) ==
    /\ gpc = "await"
    /\ LET settled == [glog EXCEPT ![Len(glog)].outcome = outcome]
       IN  IF outcome.kind = "response"
           THEN /\ gSearchResults' = IF HasItems(outcome.response)
                                    THEN gSearchResults \o outcome.response.data.items
                                    ELSE gSearchResults
                /\ glog' = Append(settled, [ev |-> "wait", ms |-> PageDelay])
                /\ gpc' = "delay"
                /\ UNCHANGED <<gi, gret>>
           ELSE IF IsRateLimit(outcome.error)
                THEN /\ glog' = Append(settled, [ev |-> "wait", ms |-> RateLimitDelay])
                     /\ gpc' = "delay"
                     /\ UNCHANGED <<gi, gret, gSearchResults>>
                ELSE SerpLoop(NextRequest(gi), numRequests, gSearchResults, settled)
    /\ UNCHANGED <<gKeyword, gNumResults, numRequests>>

\* lines 250 / 258: the timer of the delay fires; next iteration
SerpDelayOver ==
    /\ gpc = "delay"
    /\ SerpLoop(NextRequest(gi), numRequests, gSearchResults, glog)
    /\ UNCHANGED <<gKeyword, gNumResults, numRequests>>

-----------------------------------------------------------------------------
(* searchMultipleKeywords (src/modules/dataExporter.js) *)

\* mutant of Merge: every result is added, seen or not
RECURSIVE MergeAll(_, _, _, _)
MergeAll(all, seen, found, kw) ==
    IF found = <<>> THEN [all |-> all, seen |-> seen]
    ELSE MergeAll(Append(all, [title       |-> Head(found).title,
                               link        |-> Head(found).link,
                               snippet     |-> Head(found).snippet,
                               displayLink |-> Head(found).displayLink,
                               keyword     |-> kw]),
                  seen \cup {Head(found).link}, Tail(found), kw)

\* lines 293-301: the results of one keyword are gone through in order; a
\* result whose link is not in the Set is added to the Set and pushed with
\* the keyword
RECURSIVE Merge(_, _, _, _)
Merge(all, seen, found, kw) ==
    IF found = <<>> THEN [all |-> all, seen |-> seen]
    ELSE IF Head(found).link \notin seen
         THEN Merge(Append(all, [title       |-> Head(found).title,
                                 link        |-> Head(found).link,
                                 snippet     |-> Head(found).snippet,
                                 displayLink |-> Head(found).displayLink,
                                 keyword     |-> kw]),
                    seen \cup {Head(found).link}, Tail(found), kw)
         ELSE Merge(all, seen, Tail(found), kw)

\* lines 288-290 and 310: the for-of loop after iv keywords: the search of
\* the next keyword is started (and added to the log of searches), or the
\* function returns
MultiLoop(kws, n, iv, all, seen, log) ==
    /\ ki' = iv
    /\ kAllResults' = all
    /\ uniqueUrls' = seen
    /\ IF iv < Len(kws)
       THEN /\ SerpEnter(kws[iv + 1], n)
            /\ searches' = Append(log, [keyword |-> kws[iv + 1],
                                        outcome |-> [kind |-> "pending"]])
            /\ kpc' = "search"
            /\ kret' = <<>>
       ELSE /\ searches' = log
            /\ kpc' = "returned"
            /\ kret' = all
            /\ UNCHANGED serpVars

\* lines 284-290: the function is entered and runs up to its first await
MultiEnter(kws, n) ==
    /\ kKeywords' = kws
    /\ numResultsPerKeyword' = n
    /\ MultiLoop(kws, n, 0, <<>>, {}, <<>>)

MultiIdle ==
    /\ kKeywords = <<>>
    /\ numResultsPerKeyword = 0
    /\ ki = 0
    /\ kAllResults = <<>>
    /\ uniqueUrls = {}
    /\ kpc = "idle"
    /\ kret = <<>>
    /\ searches = <<>>

MultiInit ==
    /\ kKeywords \in SeqUpTo(SampleKeywords, MaxKeywords)
    /\ numResultsPerKeyword \in 1..MaxPerKeyword
    /\ ki = 0
    /\ kAllResults = <<>>
    /\ uniqueUrls = {}
    /\ kpc = "called"
    /\ kret = <<>>
    /\ searches = <<>>

MultiCall ==
    /\ kpc = "called"
    /\ MultiEnter(kKeywords, numResultsPerKeyword)

\* lines 290-304: searchGoogle returned; its results are merged and the delay
\* between two searches is awaited
MultiSearchDone ==
    /\ kpc = "search"
    /\ gpc = "returned"
    /\ LET merged == Merge(kAllResults, uniqueUrls, gret, kKeywords[ki + 1])
       IN  /\ kAllResults' = merged.all
           /\ uniqueUrls' = merged.seen
    /\ searches' = [searches EXCEPT ![Len(searches)].outcome =
                        [kind |-> "returned", results |-> gret, pages |-> glog,
                         wait |-> KeywordDelay]]
    /\ kpc' = "delay"
    /\ UNCHANGED <<kKeywords, numResultsPerKeyword, ki, kret, serpVars>>

\* line 304 and the next iteration: the timer fires
MultiDelayOver ==
    /\ kpc = "delay"
    /\ MultiLoop(kKeywords, numResultsPerKeyword, ki + 1, kAllResults, uniqueUrls,
                 searches)
    /\ UNCHANGED <<kKeywords, numResultsPerKeyword>>

-----------------------------------------------------------------------------
(* exportBacklinkAnalysis (lib/backlinkAnalyzer.js) *)

\* new Date().toISOString().replace(/[:.]/g, '-'): a sample value
Timestamp == <<"2", "0", "2", "4">>

\* a || b for strings: the empty string is falsy
OrString(a, b) == IF a # <<>> THEN a ELSE b

\* String(position).padStart(2, '0')
PadStart2(s) == IF Len(s) < 2 THEN <<"0">> \o s ELSE s

\* line 71
AnalysisPrefix(prefix) ==
    OrString(prefix, <<"b", "a", "c", "k", "l", "i", "n", "k", "_",
                       "a", "n", "a", "l", "y", "s", "i", "s", "_">> \o Timestamp)

\* lines 77-84: the summary row of every analysed page
Summary(an) ==
    [k \in DOMAIN an.backlinksAnalysis |->
        [keyword            |-> an.keyword,
         position           |-> an.backlinksAnalysis[k].position,
         url                |-> an.backlinksAnalysis[k].url,
         title              |-> an.backlinksAnalysis[k].title,
         backlinksCount     |-> an.backlinksAnalysis[k].backlinksCount,
         uniqueDomainsCount |-> an.backlinksAnalysis[k].uniqueDomainsCount]]

\* lines 91-95: the rows of the domains file of one analysed page
DomainRows(item) ==
    [k \in DOMAIN item.uniqueDomains |->
        [targetUrl       |-> item.url,
         targetPosition  |-> item.position,
         referringDomain |-> item.uniqueDomains[k]]]

\* lines 74, 87, 99, 107: the names of the files
FullName(prefix) == AnalysisPrefix(prefix) \o <<"_", "f", "u", "l", "l">>

SummaryName(prefix) ==
    AnalysisPrefix(prefix) \o <<"_", "s", "u", "m", "m", "a", "r", "y">>

DomainsName(prefix, item) ==
    AnalysisPrefix(prefix) \o <<"_", "p", "o", "s">> \o PadStart2(Digits(item.position))
        \o <<"_", "d", "o", "m", "a", "i", "n", "s">>

BacklinksName(prefix, item) ==
    AnalysisPrefix(prefix) \o <<"_", "p", "o", "s">> \o PadStart2(Digits(item.position))
        \o <<"_", "b", "a", "c", "k", "l", "i", "n", "k", "s">>

NoPaths == [jsType |-> "undefined"]

\* lines 104-115: the second loop from the item after position iv: the next
\* item with backlinks is exported; after the last item the paths are returned
BacklinksLoop(an, prefix, iv, full, summary) ==
    LET items == an.backlinksAnalysis
        todo  == { k \in (iv + 1)..Len(items) : Len(items[k].backlinks) > 0 }
    IN  IF todo # {}
        THEN LET k == CHOOSE m \in todo : \A n \in todo : m <= n
             IN  /\ ExportEnter("exportToCsv", JsArray(items[k].backlinks),
                                BacklinksName(prefix, items[k]))
                 /\ xi' = k
                 /\ xpc' = "backlinks"
                 /\ UNCHANGED <<xret, xthrown>>
        ELSE /\ xi' = Len(items)
             /\ xpc' = "returned"
             /\ xret' = [fullAnalysisPath |-> full, summaryPath |-> summary]
             /\ UNCHANGED <<xthrown, exportVars>>

\* lines 90-101: the first loop from the item after position iv: the next
\* item with unique domains is exported; after the last item the second loop
\* starts
DomainsLoop(an, prefix, iv, full, summary) ==
    LET items == an.backlinksAnalysis
        todo  == { k \in (iv + 1)..Len(items) : Len(DomainRows(items[k])) > 0 }
    IN  IF todo # {}
        THEN LET k == CHOOSE m \in todo : \A n \in todo : m <= n
             IN  /\ ExportEnter("exportToCsv", JsArray(DomainRows(items[k])),
                                DomainsName(prefix, items[k]))
                 /\ xi' = k
                 /\ xpc' = "domains"
                 /\ UNCHANGED <<xret, xthrown>>
        ELSE BacklinksLoop(an, prefix, 0, full, summary)

\* lines 66-74: the function is entered and runs up to the await of the
\* export of the full analysis
ExportAnalysisEnter(an, prefix) ==
    /\ analysis' = an
    /\ outputPrefix' = prefix
    /\ fullAnalysisPath' = NoPath
    /\ summaryPath' = NoPath
    /\ xi' = 0
    /\ ExportEnter("exportToJson", JsObject(an), FullName(prefix))
    /\ xpc' = "full"
    /\ xret' = NoPaths
    /\ xthrown' = NoError

ExportAnalysisIdle ==
    /\ analysis = NoAnalysis
    /\ outputPrefix = <<>>
    /\ fullAnalysisPath = NoPath
    /\ summaryPath = NoPath
    /\ xi = 0
    /\ xpc = "idle"
    /\ xret = NoPaths
    /\ xthrown = NoError

\* lines 74-87: the full analysis is written; the summary is built and its
\* export is started
FullExported ==
    /\ xpc = "full"
    /\ epc = "returned"
    /\ fullAnalysisPath' = eret
    /\ ExportEnter("exportToCsv", JsArray(Summary(analysis)), SummaryName(outputPrefix))
    /\ xpc' = "summary"
    /\ UNCHANGED <<analysis, outputPrefix, summaryPath, xi, xret, xthrown>>

\* lines 87-101: the summary is written; the first loop starts
SummaryExported ==
    /\ xpc = "summary"
    /\ epc = "returned"
    /\ summaryPath' = eret
    /\ DomainsLoop(analysis, outputPrefix, 0, fullAnalysisPath, eret)
    /\ UNCHANGED <<analysis, outputPrefix, fullAnalysisPath>>

\* lines 99-101: the domains of one page are written; the loop goes on
DomainsExported ==
    /\ xpc = "domains"
    /\ epc = "returned"
    /\ DomainsLoop(analysis, outputPrefix, xi, fullAnalysisPath, summaryPath)
    /\ UNCHANGED <<analysis, outputPrefix, fullAnalysisPath, summaryPath>>

\* lines 107-109: the backlinks of one page are written; the loop goes on
BacklinksExported ==
    /\ xpc = "backlinks"
    /\ epc = "returned"
    /\ BacklinksLoop(analysis, outputPrefix, xi, fullAnalysisPath, summaryPath)
    /\ UNCHANGED <<analysis, outputPrefix, fullAnalysisPath, summaryPath>>

\* lines 116-119: an export threw; the error is logged and rethrown
ExportAnalysisCatch ==
    /\ xpc \in {"full", "summary", "domains", "backlinks"}
    /\ epc = "threw"
    /\ xthrown' = ethrown
    /\ xpc' = "threw"
    /\ UNCHANGED <<analysis, outputPrefix, fullAnalysisPath, summaryPath, xi, xret,
                   exportVars>>

-----------------------------------------------------------------------------
(* run (the main entry point) *)

\* a || b for numbers: 0 is falsy
OrNumber(a, b) == IF a # 0 THEN a ELSE b

\* options as the command line builds them (lines 151-161), for small numbers
\* of results: a search, the backlinks of a domain and of a URL with and
\* without verification, the analysis of the competitors, and combinations
NoOptions ==
    [keywords |-> <<>>, numResults |-> 1, findBacklinks |-> FALSE,
     targetDomain |-> <<>>, targetUrl |-> <<>>, numBacklinks |-> 1,
     analyzeCompetitors |-> FALSE, verifyLinks |-> FALSE, outputPrefix |-> <<>>]

SampleOptions ==
    LET kw == <<"s", "e", "o">>
        d  == <<"h", "t", "t", "p", "s", ":", "/", "/", "t", ".", "i", "o", "/">>
        u  == <<"h", "t", "t", "p", "s", ":", "/", "/", "t", ".", "i", "o", "/", "a", "/">>
    IN  { NoOptions,
          [NoOptions EXCEPT !.keywords = kw],
          [NoOptions EXCEPT !.keywords = kw, !.outputPrefix = <<"o", "u", "t">>],
          [NoOptions EXCEPT !.findBacklinks = TRUE, !.targetDomain = d],
          [NoOptions EXCEPT !.findBacklinks = TRUE, !.targetDomain = d,
                            !.verifyLinks = TRUE],
          [NoOptions EXCEPT !.findBacklinks = TRUE, !.targetUrl = u],
          [NoOptions EXCEPT !.findBacklinks = TRUE, !.targetUrl = u,
                            !.verifyLinks = TRUE],
          [NoOptions EXCEPT !.findBacklinks = TRUE, !.targetDomain = d,
                            !.targetUrl = u, !.outputPrefix = <<"o", "u", "t">>],
          [NoOptions EXCEPT !.keywords = kw, !.analyzeCompetitors = TRUE],
          [NoOptions EXCEPT !.keywords = kw, !.findBacklinks = TRUE,
                            !.targetDomain = d] }

\* line 28: const results = {}
EmptyObject == [k \in {} |-> k]

\* lines 31, 56, 77, 98: the condition of each of the four stages
StageWanted(s, o) ==
    CASE s = 1 -> o.keywords # <<>> /\ ~o.analyzeCompetitors
      [] s = 2 -> o.findBacklinks /\ o.targetDomain # <<>>
      [] s = 3 -> o.findBacklinks /\ o.targetUrl # <<>>
      [] s = 4 -> o.analyzeCompetitors /\ o.keywords # <<>>

\* lines 47, 69, 90, 111: the prefix of the files of a stage
StagePrefix(s, o) ==
    OrString(o.outputPrefix,
             CASE s = 1 -> <<"s", "e", "a", "r", "c", "h", "_">> \o Timestamp
               [] s = 2 -> <<"b", "a", "c", "k", "l", "i", "n", "k", "s", "_",
                             "d", "o", "m", "a", "i", "n", "_">> \o Timestamp
               [] s = 3 -> <<"b", "a", "c", "k", "l", "i", "n", "k", "s", "_",
                             "u", "r", "l", "_">> \o Timestamp
               [] s = 4 -> <<"c", "o", "m", "p", "e", "t", "i", "t", "o", "r", "_",
                             "a", "n", "a", "l", "y", "s", "i", "s", "_">> \o Timestamp)

\* lines 50-51, 72-73, 93-94: the name of the two files of a stage
StageFile(s, o) ==
    StagePrefix(s, o) \o (IF s = 1
                          THEN <<"_", "m", "e", "t", "a", "d", "a", "t", "a">>
                          ELSE <<"_", "b", "a", "c", "k", "l", "i", "n", "k", "s">>)

\* lines 50-51, 72-73, 93-94: the array the stage exports (an array is truthy,
\* so the verified backlinks are exported whenever they were computed)
StageData(s, res) ==
    CASE s = 1 -> res.metadata
      [] s = 2 -> IF "verifiedBacklinks" \in DOMAIN res
                  THEN res.verifiedBacklinks ELSE res.backlinks
      [] s = 3 -> IF "verifiedUrlBacklinks" \in DOMAIN res
                  THEN res.verifiedUrlBacklinks ELSE res.urlBacklinks

\* x?.length || 0
LengthOrZero(res, field) == IF field \in DOMAIN res THEN Len(res[field]) ELSE 0

\* lines 121-133: the summary of a run that succeeded (the duration is left
\* out)
RunSummary(res) ==
    [success            |-> TRUE,
     searchResultsCount |-> LengthOrZero(res, "searchResults"),
     metadataCount      |-> LengthOrZero(res, "metadata"),
     backlinksCount     |-> LengthOrZero(res, "backlinks"),
     urlBacklinksCount  |-> LengthOrZero(res, "urlBacklinks"),
     competitorAnalysis |->
         IF "competitorAnalysis" \in DOMAIN res
         THEN [keyword |-> res.competitorAnalysis.keyword,
               topPagesCount |-> Len(res.competitorAnalysis.topPages),
               backlinksAnalysisCount |->
                   Len(res.competitorAnalysis.backlinksAnalysis)]
         ELSE JsNull]

\* lines 135-141: the catch clause logs the error and returns the failure
RunFailure(error) == [success |-> FALSE, error |-> error.message]

NoSummary == [jsType |-> "undefined"]

\* the operations run does not call at a position
RunOthers(called) ==
    /\ IF "search" \in called THEN TRUE ELSE UNCHANGED searchVars
    /\ IF "find" \in called THEN TRUE ELSE UNCHANGED findVars
    /\ IF "verify" \in called THEN TRUE ELSE UNCHANGED verifyVars
    /\ IF "meta" \in called THEN TRUE ELSE UNCHANGED metaVars
    /\ IF "analyze" \in called THEN TRUE ELSE UNCHANGED analyzeVars
    /\ IF "export" \in called THEN TRUE ELSE UNCHANGED exportVars
    /\ IF "exportAnalysis" \in called THEN TRUE ELSE UNCHANGED exportAnalysisVars

\* the function returns
RunReturn(res, value) ==
    /\ runResults' = res
    /\ rpc' = "returned"
    /\ rret' = value
    /\ UNCHANGED <<stage, stageStart>>
    /\ RunOthers({})

\* lines 50, 72, 93: the export of the stage to JSON is started
RunExportJson(s, res) ==
    /\ runResults' = res
    /\ ExportEnter("exportToJson", JsArray(StageData(s, res)), StageFile(s, options))
    /\ rpc' = "json"
    /\ UNCHANGED <<stage, stageStart, rret>>
    /\ RunOthers({"export"})

\* lines 31-33, 56-58, 77-79, 98-104, 116-133: from the test of stage s on:
\* the first stage wanted is entered and runs up to its first await; with no
\* stage left the summary is returned
RunStage(s, res) ==
    LET wanted == { t \in s..4 : StageWanted(t, options) }
    IN  IF wanted = {}
        THEN RunReturn(res, RunSummary(res))
        ELSE LET t == CHOOSE m \in wanted : \A n \in wanted : m <= n
             IN  /\ runResults' = res
                 /\ stage' = t
                 /\ stageStart' = Len(written)
                 /\ UNCHANGED rret
                 /\ CASE t = 1 ->
                           /\ SearchEnter(options.keywords, options.numResults)
                           /\ rpc' = "search"
                           /\ RunOthers({"search"})
                      [] t = 2 ->
                           /\ FindEnter("findBacklinks", options.targetDomain,
                                        OrNumber(options.numBacklinks,
                                                 DefaultDomainBacklinks))
                           /\ rpc' = "find"
                           /\ RunOthers({"search", "find"})
                      [] t = 3 ->
                           /\ FindEnter("findBacklinksForUrl", options.targetUrl,
                                        OrNumber(options.numBacklinks,
                                                 DefaultUrlBacklinks))
                           /\ rpc' = "find"
                           /\ RunOthers({"search", "find"})
                      [] t = 4 ->
                           /\ AnalyzeEnter(options.keywords,
                                           OrNumber(options.numResults, DefaultTopPages),
                                           OrNumber(options.numBacklinks, DefaultPerUrl))
                           /\ rpc' = "analyze"
                           /\ RunOthers({"search", "analyze"})

RunIdle ==
    /\ options = NoOptions
    /\ runResults = EmptyObject
    /\ stage = 0
    /\ stageStart = 0
    /\ rpc = "idle"
    /\ rret = NoSummary

RunInit ==
    /\ options \in SampleOptions
    /\ runResults = EmptyObject
    /\ stage = 0
    /\ stageStart = 0
    /\ rpc = "called"
    /\ rret = NoSummary

\* lines 22-31: run is called
RunCall ==
    /\ rpc = "called"
    /\ RunStage(1, EmptyObject)
    /\ UNCHANGED options

\* lines 33-42: searchGoogle returned; with results their metadata is
\* extracted, with none the stage is over
SearchDone ==
    /\ rpc = "search"
    /\ spc = "returned"
    /\ LET res     == [searchResults |-> sret] @@ runResults
           urlList == [k \in DOMAIN sret |-> sret[k].link]
       IN  IF Len(urlList) > 0
           THEN /\ runResults' = res
                /\ MetaEnter(urlList)
                /\ rpc' = "metadata"
                /\ UNCHANGED <<stage, stageStart, rret>>
                /\ RunOthers({"meta"})
           ELSE RunStage(2, res)
    /\ UNCHANGED options

\* lines 42-50: the metadata is there; its export to JSON is started
MetadataDone ==
    /\ rpc = "metadata"
    /\ mpc = "returned"
    /\ RunExportJson(1, [metadata |-> mret] @@ runResults)
    /\ UNCHANGED options

\* lines 58-72, 79-93: the finder returned; the backlinks are verified if
\* wanted, else their export to JSON is started
FindDone ==
    /\ rpc = "find"
    /\ fpc = "returned"
    /\ LET res == IF stage = 2 THEN [backlinks |-> fret] @@ runResults
                  ELSE [urlBacklinks |-> fret] @@ runResults
       IN  IF options.verifyLinks
           THEN /\ runResults' = res
                /\ VerifyEnter(fret,
                               IF stage = 2 THEN options.targetDomain
                               ELSE options.targetUrl,
                               DefaultMaxConcurrent)
                /\ rpc' = "verify"
                /\ UNCHANGED <<stage, stageStart, rret>>
                /\ RunOthers({"verify"})
           ELSE RunExportJson(stage, res)
    /\ UNCHANGED options

\* lines 64-72, 85-93: the verification returned; the export to JSON is
\* started
VerifyDone ==
    /\ rpc = "verify"
    /\ vpc = "returned"
    /\ RunExportJson(stage, IF stage = 2
                            THEN [verifiedBacklinks |-> vret] @@ runResults
                            ELSE [verifiedUrlBacklinks |-> vret] @@ runResults)
    /\ UNCHANGED options

\* lines 50-51, 72-73, 93-94: the JSON file is written; the export to CSV is
\* started
JsonDone ==
    /\ rpc = "json"
    /\ epc = "returned"
    /\ ExportEnter("exportToCsv", JsArray(StageData(stage, runResults)),
                   StageFile(stage, options))
    /\ rpc' = "csv"
    /\ UNCHANGED <<options, runResults, stage, stageStart, rret>>
    /\ RunOthers({"export"})

\* lines 51-56, 73-77, 94-98: the CSV file is written; the stage is over
CsvDone ==
    /\ rpc = "csv"
    /\ epc = "returned"
    /\ RunStage(stage + 1, runResults)
    /\ UNCHANGED options

\* lines 100-113: the analysis returned; its export is started
AnalyzeDone ==
    /\ rpc = "analyze"
    /\ apc = "returned"
    /\ runResults' = [competitorAnalysis |-> aret] @@ runResults
    /\ ExportAnalysisEnter(aret, StagePrefix(4, options))
    /\ rpc' = "exportAnalysis"
    /\ UNCHANGED <<options, stage, stageStart, rret>>
    /\ RunOthers({"export", "exportAnalysis"})

\* lines 113-133: the analysis is exported; the summary is returned
ExportAnalysisDone ==
    /\ rpc = "exportAnalysis"
    /\ xpc = "returned"
    /\ RunStage(5, runResults)
    /\ UNCHANGED options

\* lines 135-141: an awaited call threw; the catch clause returns the failure
RunCatch ==
    /\ \/ rpc = "search" /\ spc = "threw" /\ RunReturn(runResults, RunFailure(sthrown))
       \/ rpc = "find" /\ fpc = "threw" /\ RunReturn(runResults, RunFailure(fthrown))
       \/ rpc \in {"json", "csv"} /\ epc = "threw"
             /\ RunReturn(runResults, RunFailure(ethrown))
       \/ rpc = "analyze" /\ apc = "threw" /\ RunReturn(runResults, RunFailure(athrown))
       \/ rpc = "exportAnalysis" /\ xpc = "threw"
             /\ RunReturn(runResults, RunFailure(xthrown))
    /\ UNCHANGED options

-----------------------------------------------------------------------------
(* analyzeSiteForSubmission and analyzeBatchOfSites                         *)
(* (src/modules/dataExporter.js)                                            *)

SUBMISSION_URL_PATTERNS ==
    << <<"/", "w", "r", "i", "t", "e", "-", "f", "o", "r", "-", "u", "s">>,
       <<"/", "c", "o", "n", "t", "r", "i", "b", "u", "t", "e">>,
       <<"/", "s", "u", "b", "m", "i", "s", "s", "i", "o", "n">>,
       <<"/", "s", "u", "b", "m", "i", "t">>,
       <<"/", "g", "u", "e", "s", "t", "-", "p", "o", "s", "t">>,
       <<"/", "w", "r", "i", "t", "e", "-", "w", "i", "t", "h", "-", "u", "s">>,
       <<"/", "c", "o", "n", "t", "r", "i", "b", "u", "t", "o", "r", "s">>,
       <<"/", "g", "u", "e", "s", "t", "-", "b", "l", "o", "g", "g", "i", "n",
         "g">>,
       <<"/", "g", "u", "e", "s", "t", "-", "c", "o", "n", "t", "r", "i", "b",
         "u", "t", "o", "r">>,
       <<"/", "a", "u", "t", "h", "o", "r", "s">>,
       <<"/", "b", "e", "c", "o", "m", "e", "-", "a", "-", "c", "o", "n", "t",
         "r", "i", "b", "u", "t", "o", "r">>,
       <<"/", "j", "o", "i", "n", "-", "u", "s">>,
       <<"/", "p", "u", "b", "l", "i", "s", "h">>,
       <<"/", "g", "u", "i", "d", "e", "l", "i", "n", "e", "s">> >>

SUBMISSION_KEYWORDS ==
    << <<"w", "r", "i", "t", "e", " ", "f", "o", "r", " ", "u", "s">>,
       <<"s", "u", "b", "m", "i", "t", " ", "a", "r", "t", "i", "c", "l", "e">>,
       <<"g", "u", "e", "s", "t", " ", "p", "o", "s", "t">>,
       <<"c", "o", "n", "t", "r", "i", "b", "u", "t", "e">>,
       <<"b", "e", "c", "o", "m", "e", " ", "a", " ", "c", "o", "n", "t", "r",
         "i", "b", "u", "t", "o", "r">>,
       <<"g", "u", "e", "s", "t", " ", "a", "u", "t", "h", "o", "r">>,
       <<"s", "u", "b", "m", "i", "s", "s", "i", "o", "n", " ", "g", "u", "i",
         "d", "e", "l", "i", "n", "e", "s">>,
       <<"c", "o", "n", "t", "e", "n", "t", " ", "s", "u", "b", "m", "i", "s",
         "s", "i", "o", "n">>,
       <<"a", "r", "t", "i", "c", "l", "e", " ", "s", "u", "b", "m", "i", "s",
         "s", "i", "o", "n">>,
       <<"b", "e", "c", "o", "m", "e", " ", "a", "n", " ", "a", "u", "t", "h",
         "o", "r">>,
       <<"p", "u", "b", "l", "i", "s", "h", " ", "w", "i", "t", "h", " ", "u",
         "s">>,
       <<"j", "o", "i", "n", " ", "o", "u", "r", " ", "w", "r", "i", "t", "e",
         "r", "s">>,
       <<"g", "u", "e", "s", "t", " ", "b", "l", "o", "g", "g", "i", "n", "g">>,
       <<"s", "u", "b", "m", "i", "t", " ", "y", "o", "u", "r", " ", "c", "o",
         "n", "t", "e", "n", "t">>,
       <<"w", "r", "i", "t", "e", " ", "f", "o", "r">>,
       <<"a", "u", "t", "h", "o", "r", " ", "g", "u", "i", "d", "e", "l", "i",
         "n", "e", "s">> >>

\* the points a finding adds to the confidence, its cap and the threshold of
\* acceptance
UrlPoints == 20
LinkKeywordPoints == 15
BodyKeywordPoints == 10
ContactFormPoints == 5
WordPressPoints == 10
ConfidenceCap == 100
AcceptThreshold == 30

\* A fetched page as the selectors of analyzeSiteForSubmission see it: its a
\* elements in document order (a missing href attribute is a missing field),
\* the text of the body outside the a elements, the number of form elements,
\* the content of the generator meta element (a missing element is a missing
\* field) and the number of link elements with rel="https://api.w.org/"
LinkWriteForUs ==
    [href |-> <<"/", "w", "r", "i", "t", "e", "-", "f", "o", "r", "-", "u",
                "s">>,
     text |-> <<" ", "W", "r", "i", "t", "e", " ", "F", "o", "r", " ", "U",
                "s", " ">>]
LinkSubmit ==
    [href |-> <<"s", "u", "b", "m", "i", "t">>,
     text |-> <<"G", "u", "e", "s", "t", " ", "P", "o", "s", "t">>]
LinkContribute ==
    [href |-> <<"h", "t", "t", "p", ":", "/", "/", "x", ".", "i", "o", "/",
                "c", "o", "n", "t", "r", "i", "b", "u", "t", "e">>,
     text |-> <<"c", "o", "n", "t", "r", "i", "b", "u", "t", "e">>]
LinkNoHref == [text |-> <<"g", "u", "e", "s", "t", " ", "a", "u", "t", "h",
                          "o", "r">>]
LinkAbout == [href |-> <<"/", "a", "b", "o", "u",
                         "t">>, text |-> <<"A", "b", "o", "u", "t">>]

SampleLinks == {LinkWriteForUs, LinkSubmit, LinkContribute, LinkNoHref}

SampleBodyTexts ==
    { <<>>,
      <<" ", "E", "m", "a", "i", "l", " ", "u", "s", " ", "S", "u", "b", "m",
        "i", "t", " ", "A", "r", "t", "i", "c", "l", "e">> }

\* the numbers of form elements a page can have
SampleForms == {0, 2}

\* the markers of a content management system a page can carry
SampleMarkers ==
    { [wpLinks |-> 0],
      [wpLinks |-> 0, generator |-> <<"W", "o", "r", "d", "P", "r", "e", "s",
                                      "s", " ", "6">>],
      [wpLinks |-> 0, generator |-> <<"H", "u", "g", "o">>] }

SamplePages ==
    { [links |-> l, text |-> t, forms |-> f] @@ m :
          l \in SeqUpTo(SampleLinks, MaxLinks), t \in SampleBodyTexts,
          f \in SampleForms, m \in SampleMarkers }

\* What axios.get does for analyzeSiteForSubmission
SiteFetchErrors ==
    { [kind |-> "error", error |-> [message |-> "timeout of 15000ms exceeded"]],
      [kind |-> "error",
       error |-> [message |-> "Request failed with status code 404"]] }

SiteFetchOutcomes ==
    { [kind |-> "response", response |-> [status |-> 200, data |-> p]] :
          p \in SamplePages } \cup SiteFetchErrors

\* line 558: the base URL of the site. (url-parse on an absolute http or
\* https URL, the only URLs the model draws: the protocol is the scheme with
\* its colon, the hostname is lower-cased.)
SiteProtocol(url) == UrlScheme(url) \o <<":">>

SiteHostname(url) == UrlHostname(url).hostname

BaseUrl(url) == SiteProtocol(url) \o <<"/", "/">> \o SiteHostname(url)

\* pattern.replace(/[/-]/g, ' ').trim()
PatternWords(pattern) ==
    Trim([k \in DOMAIN pattern |->
              IF pattern[k] \in {"/", "-"} THEN " " ELSE pattern[k]])

\* Array.prototype.includes
ArrayIncludes(arr, x) == \E k \in DOMAIN arr : arr[k] = x

\* lines 591-596: the absolute URL of a link
FullUrl(baseUrl, href) ==
    IF StartsWith(href, <<"/">>) THEN baseUrl \o href
    ELSE IF ~StartsWith(href, <<"h", "t", "t",
                                "p">>) THEN baseUrl \o <<"/">> \o href
    ELSE href

\* lines 590-602: one round of the loop over the URL patterns
PatternStep(result, baseUrl, href, linkText, pattern) ==
    IF /\ \/ Includes(href, pattern)
          \/ Includes(linkText, PatternWords(pattern))
       /\ ~ArrayIncludes(result.submissionPageUrls, FullUrl(baseUrl, href))
    THEN [result EXCEPT
              !.submissionPageUrls = Append(@, FullUrl(baseUrl, href)),
              !.confidence = @ + UrlPoints]
    ELSE result

\* lines 589-603: the loop over the URL patterns, from pattern k on
RECURSIVE CheckPatterns(_, _, _, _, _)
CheckPatterns(result, baseUrl, href, linkText, k) ==
    IF k > Len(SUBMISSION_URL_PATTERNS) THEN result
    ELSE Bind(PatternStep(result, baseUrl, href, linkText,
                          SUBMISSION_URL_PATTERNS[k]),
              LAMBDA r : CheckPatterns(r, baseUrl, href, linkText, k + 1))

\* lines 607-612 and 619-624: one round of a loop over the keywords
KeywordStep(result, text, word, points) ==
    IF Includes(text, word)
       /\ ~ArrayIncludes(result.submissionKeywordsFound, word)
    THEN [result EXCEPT
              !.submissionKeywordsFound = Append(@, word),
              !.confidence = @ + points]
    ELSE result

\* lines 606-613 and 618-625: a loop over the keywords, from keyword k on
RECURSIVE CheckKeywords(_, _, _, _)
CheckKeywords(result, text, points, k) ==
    IF k > Len(SUBMISSION_KEYWORDS) THEN result
    ELSE Bind(KeywordStep(result, text, SUBMISSION_KEYWORDS[k], points),
              LAMBDA r : CheckKeywords(r, text, points, k + 1))

\* lines 582-613: the callback of $('a').each for one a element
CheckLink(result, baseUrl, el) ==
    IF "href" \notin DOMAIN el \/ el.href = <<>> THEN result
    ELSE Bind(Trim(ToLower(el.text)), LAMBDA linkText :
             Bind(CheckPatterns(result, baseUrl, el.href, linkText, 1),
                  LAMBDA r : CheckKeywords(r, linkText, LinkKeywordPoints, 1)))

\* line 582: $('a').each, from element k on
RECURSIVE CheckLinks(_, _, _, _)
CheckLinks(result, baseUrl, links, k) ==
    IF k > Len(links) THEN result
    ELSE Bind(CheckLink(result, baseUrl, links[k]),
              LAMBDA r : CheckLinks(r, baseUrl, links, k + 1))

\* line 617: $('body').text().toLowerCase(); the a elements are part of the
\* body
PageText(page) ==
    ToLower(ConcatText([k \in DOMAIN page.links |-> page.links[k].text])
            \o page.text)

\* lines 628-629
HasContactForm(page, pageText) ==
    /\ page.forms > 0
    /\ \/ Includes(pageText, <<"c", "o", "n", "t", "a", "c", "t">>)
       \/ Includes(pageText, <<"m", "e", "s", "s", "a", "g", "e">>)
       \/ Includes(pageText, <<"e", "m", "a", "i", "l">>)

\* lines 637-638
HasWordPress(page) ==
    \/ "generator" \in DOMAIN page /\ Includes(page.generator, <<"W", "o", "r",
                                                                 "d", "P", "r",
                                                                 "e", "s",
                                                                 "s">>)
    \/ page.wpLinks > 0

\* lines 631-634 and 640-643: a finding adds a note and its points
Noted(result, found, note, points) ==
    IF found
    THEN [result EXCEPT !.notes = Append(@, [text |-> note]),
                        !.confidence = @ + points]
    ELSE result

\* mutant of CapConfidence: the confidence is not capped
CapConfidenceNone(confidence) == confidence

\* line 646: Math.min(result.confidence, 100)
CapConfidence(confidence) == Min(confidence, ConfidenceCap)

\* line 647
Accepts(confidence) == confidence >= AcceptThreshold

\* lines 646-653: the acceptance and the last note
Decided(result) ==
    Bind(CapConfidence(result.confidence), LAMBDA confidence :
        [result EXCEPT
             !.confidence = confidence,
             !.acceptsSubmissions = Accepts(confidence),
             !.notes = Append(@,
                 IF Accepts(confidence)
                 THEN [text |-> "Confidence level: %",
                       confidence |-> confidence]
                 ELSE [text |-> "No clear submission opportunities found"])])

\* lines 571-579: the result before the page is looked at
InitialResult(url) ==
    [url |-> url, domain |-> SiteHostname(url), acceptsSubmissions |-> FALSE,
     confidence |-> 0, submissionPageUrls |-> <<>>,
     submissionKeywordsFound |-> <<>>, notes |-> <<>>]

\* lines 568-655: the result for a fetched page
AnalyzedSite(url, page) ==
    Bind(PageText(page), LAMBDA pageText :
      Bind(CheckLinks(InitialResult(url), BaseUrl(url), page.links, 1),
           LAMBDA linked :
        Bind(CheckKeywords(linked, pageText, BodyKeywordPoints, 1),
             LAMBDA worded :
          Bind(Noted(worded, HasContactForm(page, pageText),
                     "Has contact form that might be used for submissions",
                     ContactFormPoints),
               LAMBDA formed :
            Decided(Noted(formed, HasWordPress(page),
                          "WordPress site (more likely to accept submissions)",
                          WordPressPoints))))))

\* lines 656-667: the catch clause returns a record of its own
FailedSite(url, error) ==
    [url |-> url, domain |-> SiteHostname(url), acceptsSubmissions |-> FALSE,
     confidence |-> 0, submissionPageUrls |-> <<>>,
     submissionKeywordsFound |-> <<>>,
     notes |-> << [text  |-> "Error during analysis: ",
                   error |-> error.message] >>]

\* what the promise analyzeSiteForSubmission(url) resolves with
AnalyzeSite(url, outcome) ==
    IF outcome.kind = "response"
    THEN AnalyzedSite(url, outcome.response.data)
    ELSE FailedSite(url, outcome.error)

SampleSiteUrls ==
    { <<"h", "t", "t", "p", "s", ":", "/", "/", "s", "1", ".", "i", "o", "/">>,
      <<"h", "t", "t", "p", ":", "/", "/", "S", "2", ".", "i", "o", "/", "b",
        "l", "o", "g">> }

SiteIdle ==
    /\ siteUrl = <<>>
    /\ upc = "idle"
    /\ uret = EmptyObject
    /\ ufetched = NotFetched

SiteInit ==
    /\ siteUrl \in SampleSiteUrls
    /\ upc = "called"
    /\ uret = EmptyObject
    /\ ufetched = NotFetched

\* lines 555-566: the function runs up to its axios.get
SiteCall ==
    /\ upc = "called"
    /\ upc' = "await"
    /\ UNCHANGED <<siteUrl, uret, ufetched>>

\* lines 568-667: axios.get settles and the function runs to its return
SiteFetchSettle(outcome) ==
    /\ upc = "await"
    /\ upc' = "returned"
    /\ uret' = AnalyzeSite(siteUrl, outcome)
    /\ ufetched' = outcome
    /\ UNCHANGED siteUrl

\* The sites analyzeBatchOfSites is given: records with a url and whatever
\* else the caller keeps with it
SampleSites ==
    { [url |-> <<"h", "t", "t", "p", "s", ":", "/", "/", "s", "1", ".", "i",
                 "o", "/">>, title |-> "one"],
      [url |-> <<"h", "t", "t", "p", ":", "/", "/", "S", "2", ".", "i", "o",
                 "/", "b", "l", "o", "g">>, confidence |-> 7] }

\* what the sites of a batch answer with: a page with nothing to find, a page
\* with more findings than the cap allows, and a failure
BatchFetchOutcomes ==
    { [kind |-> "response",
       response |-> [status |-> 200,
                     data |-> [links |-> <<LinkAbout>>, text |-> <<>>,
                               forms |-> 0, wpLinks |-> 0]]],
      [kind |-> "response",
       response |-> [status |-> 200,
                     data |-> [links |-> <<LinkWriteForUs, LinkSubmit,
                                           LinkContribute>>,
                               text |-> <<>>, forms |-> 0, wpLinks |-> 1]]],
      [kind  |-> "error",
       error |-> [message |-> "timeout of 15000ms exceeded"]] }

\* lines 692-695: the site's own fields, overridden by those of the analysis
MergedSite(site, value) == value @@ site

\* lines 690-706: a fulfilled member gives the site merged with its analysis.
\* (The rejected branch is never taken: analyzeSiteForSubmission catches
\* every error of its body.)
SiteBatchResults(members, promises) ==
    [j \in DOMAIN promises |-> MergedSite(members[j], promises[j].value)]

\* lines 682-686 and 716: the loop test and, when it passes, the body up to
\* the await: every member's analyzeSiteForSubmission runs up to its axios.get
SitesLoopHead(list, size, iv, collected) ==
    IF LoopTest(iv, Len(list))
    THEN /\ bi' = iv
         /\ siteBatch' = BatchOf(list, iv, size)
         /\ siteBatchPromises' = [j \in 1..Len(siteBatch') |-> Pending]
         /\ siteResults' = collected
         /\ bpc' = "await"
         /\ bret' = <<>>
    ELSE /\ bi' = iv
         /\ siteBatch' = <<>>
         /\ siteBatchPromises' = <<>>
         /\ siteResults' = collected
         /\ bpc' = "returned"
         /\ bret' = collected

SitesIdle ==
    /\ sites = <<>>
    /\ batchSize = DefaultBatchSize
    /\ bi = 0
    /\ siteBatch = <<>>
    /\ siteBatchPromises = <<>>
    /\ siteResults = <<>>
    /\ bpc = "idle"
    /\ bret = <<>>
    /\ sfetched = <<>>

SitesInit ==
    /\ sites \in SeqUpTo(SampleSites, MaxSites)
    /\ batchSize \in (0..MaxBatchSize) \cup {DefaultBatchSize}
    /\ bi = 0
    /\ siteBatch = <<>>
    /\ siteBatchPromises = <<>>
    /\ siteResults = <<>>
    /\ bpc = "called"
    /\ bret = <<>>
    /\ sfetched = [k \in 1..Len(sites) |-> NotFetched]

\* lines 676-686: the function is entered
SitesCall ==
    /\ bpc = "called"
    /\ SitesLoopHead(sites, batchSize, 0, <<>>)
    /\ UNCHANGED <<sites, batchSize, sfetched>>

\* lines 554-667: the axios.get of one batch member settles and its
\* analyzeSiteForSubmission runs to its return; requests settle in any order
SitesFetchSettle(j, outcome) ==
    /\ bpc = "await"
    /\ j \in DOMAIN siteBatchPromises
    /\ siteBatchPromises[j] = Pending
    /\ siteBatchPromises' = [siteBatchPromises EXCEPT
           ![j] = Fulfilled(AnalyzeSite(siteBatch[j].url, outcome))]
    /\ sfetched' = [sfetched EXCEPT ![bi + j] = outcome]
    /\ UNCHANGED <<sites, batchSize, bi, siteBatch, siteResults, bpc, bret>>

\* lines 687-713: Promise.allSettled resolves once every member has settled;
\* the records are pushed in the order of the batch, and the function pauses
\* when sites are left
SitesBatchJoin ==
    /\ bpc = "await"
    /\ \A j \in DOMAIN siteBatchPromises :
           siteBatchPromises[j].state = "fulfilled"
    /\ IF bi + batchSize < Len(sites)
       THEN /\ siteResults' = PushAll(siteResults,
                    SiteBatchResults(siteBatch, siteBatchPromises))
            /\ bpc' = "pause"
            /\ UNCHANGED <<bi, siteBatch, siteBatchPromises, bret>>
       ELSE SitesLoopHead(sites, batchSize, bi + batchSize,
                PushAll(siteResults,
                        SiteBatchResults(siteBatch, siteBatchPromises)))
    /\ UNCHANGED <<sites, batchSize, sfetched>>

\* lines 712 and 682: the pause is over, i += batchSize and
\* the loop test
SitesPauseOver ==
    /\ bpc = "pause"
    /\ SitesLoopHead(sites, batchSize, bi + batchSize, siteResults)
    /\ UNCHANGED <<sites, batchSize, sfetched>>

-----------------------------------------------------------------------------
(* categorizeUrl and categorizeSearchResults (src/modules/dataExporter.js) *)

SOCIAL_MEDIA_DOMAINS ==
    << <<"l", "i", "n", "k", "e", "d", "i", "n", ".", "c", "o", "m">>,
       <<"f", "a", "c", "e", "b", "o", "o", "k", ".", "c", "o", "m">>,
       <<"t", "w", "i", "t", "t", "e", "r", ".", "c", "o", "m">>,
       <<"i", "n", "s", "t", "a", "g", "r", "a", "m", ".", "c", "o", "m">>,
       <<"p", "i", "n", "t", "e", "r", "e", "s", "t", ".", "c", "o", "m">>,
       <<"r", "e", "d", "d", "i", "t", ".", "c", "o", "m">>,
       <<"m", "e", "d", "i", "u", "m", ".", "c", "o", "m">>,
       <<"t", "u", "m", "b", "l", "r", ".", "c", "o", "m">>,
       <<"q", "u", "o", "r", "a", ".", "c", "o", "m">>,
       <<"y", "o", "u", "t", "u", "b", "e", ".", "c", "o", "m">>,
       <<"t", "i", "k", "t", "o", "k", ".", "c", "o", "m">>,
       <<"s", "n", "a", "p", "c", "h", "a", "t", ".", "c", "o", "m">>,
       <<"t", "h", "r", "e", "a", "d", "s", ".", "n", "e", "t">>,
       <<"f", "l", "i", "c", "k", "r", ".", "c", "o", "m">>,
       <<"v", "i", "m", "e", "o", ".", "c", "o", "m">>,
       <<"t", "e", "l", "e", "g", "r", "a", "m", ".", "o", "r", "g">>,
       <<"w", "h", "a", "t", "s", "a", "p", "p", ".", "c", "o", "m">>,
       <<"d", "i", "s", "c", "o", "r", "d", ".", "c", "o", "m">>,
       <<"s", "l", "a", "c", "k", ".", "c", "o", "m">>,
       <<"m", "e", "e", "t", "u", "p", ".", "c", "o", "m">> >>

CONTENT_PLATFORMS ==
    << <<"w", "o", "r", "d", "p", "r", "e", "s", "s", ".", "c", "o", "m">>,
       <<"b", "l", "o", "g", "g", "e", "r", ".", "c", "o", "m">>,
       <<"m", "e", "d", "i", "u", "m", ".", "c", "o", "m">>,
       <<"s", "u", "b", "s", "t", "a", "c", "k", ".", "c", "o", "m">>,
       <<"g", "h", "o", "s", "t", ".", "o", "r", "g">>,
       <<"w", "i", "x", ".", "c", "o", "m">>,
       <<"s", "q", "u", "a", "r", "e", "s", "p", "a", "c", "e", ".", "c", "o",
         "m">>,
       <<"w", "e", "e", "b", "l", "y", ".", "c", "o", "m">>,
       <<"h", "u", "b", "s", "p", "o", "t", ".", "c", "o", "m">>,
       <<"t", "y", "p", "e", "p", "a", "d", ".", "c", "o", "m">> >>

\* The values a link can be: a string, undefined (the result has no link),
\* or an object without a toString method, which the URL parser cannot take
JsString(chars) == [jsType |-> "string", chars |-> chars]

NoToString == [jsType |-> "object"]

\* line 850: new URLParser(url).hostname, or failure when the constructor
\* throws. (url-parse turns its argument into a string with toString and
\* takes undefined for the empty string; it finds a hostname in an absolute
\* URL only, and lower-cases it.)
ParsedHostname(url) ==
    IF url.jsType = "object"
    THEN [ok |-> FALSE, error |-> [message |-> "toString is not a function"]]
    ELSE IF url.jsType = "undefined"
    THEN [ok |-> TRUE, hostname |-> <<>>]
    ELSE IF /\ UrlScheme(url.chars) \in
                   { <<"h", "t", "t", "p">>, <<"h", "t", "t", "p", "s">> }
            /\ UrlHostname(url.chars).ok
    THEN [ok |-> TRUE, hostname |-> UrlHostname(url.chars).hostname]
    ELSE [ok |-> TRUE, hostname |-> <<>>]

\* line 851: hostname.replace(/^www\./, '')
ReplaceWww(hostname) ==
    IF StartsWith(hostname, <<"w", "w", "w", ".">>)
    THEN SubSeq(hostname, 5, Len(hostname))
    ELSE hostname

\* domains.some(domain => hostname.includes(domain))
SomeIncluded(domains, hostname) ==
    \E k \in DOMAIN domains : Includes(hostname, domains[k])

\* mutant of CategoryOf: the content platforms are looked at first
CategoryOfContentFirst(hostname) ==
    IF SomeIncluded(CONTENT_PLATFORMS, hostname) THEN "content_platform"
    ELSE IF SomeIncluded(SOCIAL_MEDIA_DOMAINS, hostname) THEN "social_media"
    ELSE "other"

\* lines 853-875: the social media domains are looked at first
CategoryOf(hostname) ==
    IF SomeIncluded(SOCIAL_MEDIA_DOMAINS, hostname) THEN "social_media"
    ELSE IF SomeIncluded(CONTENT_PLATFORMS, hostname) THEN "content_platform"
    ELSE "other"

\* lines 848-886
categorizeUrl(url) ==
    Bind(ParsedHostname(url), LAMBDA parsed :
        IF parsed.ok
        THEN Bind(ReplaceWww(parsed.hostname), LAMBDA hostname :
                 [url |-> url, category |-> CategoryOf(hostname),
                  domain |-> hostname])
        ELSE [url |-> url, category |-> "error", domain |-> <<>>,
              error |-> parsed.error.message])

\* result.title, result.snippet, result.keyword: undefined when missing
PropertyOf(obj, name) == IF name \in DOMAIN obj THEN obj[name] ELSE Undefined

\* lines 906-911: the categorization with the data of the search result
EnhancedResult(result) ==
    [title   |-> PropertyOf(result, "title"),
     snippet |-> PropertyOf(result, "snippet"),
     keyword |-> PropertyOf(result, "keyword")]
        @@ categorizeUrl(PropertyOf(result, "link"))

\* lines 894-899
NoCategories ==
    [social_media |-> <<>>, content_platform |-> <<>>, other |-> <<>>,
     error |-> <<>>]

\* lines 902-915: the callback of forEach, for the results from k on
RECURSIVE CategorizeFrom(_, _, _)
CategorizeFrom(categories, list, k) ==
    IF k > Len(list) THEN categories
    ELSE Bind(EnhancedResult(list[k]), LAMBDA enhancedResult :
             CategorizeFrom(
                 [categories EXCEPT
                      ![enhancedResult.category] = Append(@, enhancedResult)],
                 list, k + 1))

\* lines 893-918
categorizeSearchResults(list) == CategorizeFrom(NoCategories, list, 1)

SampleSearchResults ==
    { [link    |-> JsString(<<"h", "t", "t", "p", "s", ":", "/", "/", "w", "w",
                              "w", ".", "m", "e", "d", "i", "u", "m", ".", "c",
                              "o", "m", "/", "a">>),
       title   |-> "Medium", snippet |-> "s", keyword |-> "seo"],
      [link    |-> JsString(<<"h", "t", "t", "p", "s", ":", "/", "/", "b", "l",
                              "o", "g", ".", "w", "o", "r", "d", "p", "r", "e",
                              "s", "s", ".", "c", "o", "m", "/">>),
       title   |-> "WordPress", keyword |-> "seo"],
      [link    |-> JsString(<<"h", "t", "t", "p", "s", ":", "/", "/", "W", "W",
                              "W", ".", "T", "w", "i", "t", "t", "e", "r", ".",
                              "c", "o", "m", "/", "x">>),
       title   |-> "Twitter", snippet |-> "s"],
      [link    |-> JsString(<<"h", "t", "t", "p", ":", "/", "/", "w", "i", "x",
                              ".", "c", "o", "m", ".", "v", "i", "m", "e", "o",
                              ".", "c", "o", "m", "/">>),
       title   |-> "Both"],
      [link    |-> JsString(<<"h", "t", "t", "p", ":", "/", "/", "e", "x", "a",
                              "m", "p", "l", "e", ".", "o", "r", "g", "/">>),
       title   |-> "Example"],
      [title   |-> "No link"],
      [link    |-> NoToString,
       title   |-> "Object"] }

CategorizeIdle ==
    /\ cSearchResults = <<>>
    /\ cpc = "idle"
    /\ cret = NoCategories

CategorizeInit ==
    /\ cSearchResults \in SeqUpTo(SampleSearchResults, MaxSearchResults)
    /\ cpc = "called"
    /\ cret = NoCategories

\* lines 893-918: the function is synchronous
CategorizeCall ==
    /\ cpc = "called"
    /\ cpc' = "returned"
    /\ cret' = categorizeSearchResults(cSearchResults)
    /\ UNCHANGED cSearchResults

-----------------------------------------------------------------------------
(* Specifications: one per operation, the other operations not called *)

NextVerify ==
    \/ /\ VerifyCall
       /\ UNCHANGED <<searchVars, domainVars, findVars, analyzeVars, exportVars, metaVars,
                      serpVars, exportAnalysisVars, runVars, multiVars, siteVars, sitesVars, categorizeVars>>
    \/ /\ \E j \in 1..(MaxConcurrent + DefaultMaxConcurrent), outcome \in FetchOutcomes :
              FetchSettle(j, outcome)
       /\ UNCHANGED <<searchVars, domainVars, findVars, analyzeVars, exportVars, metaVars,
                      serpVars, exportAnalysisVars, runVars, multiVars, siteVars, sitesVars, categorizeVars>>
    \/ /\ BatchJoin
       /\ UNCHANGED <<searchVars, domainVars, findVars, analyzeVars, exportVars, metaVars,
                      serpVars, exportAnalysisVars, runVars, multiVars, siteVars, sitesVars, categorizeVars>>

InitVerify ==
    /\ VerifyInit
    /\ SearchIdle
    /\ DomainsIdle
    /\ FindIdle
    /\ AnalyzeIdle
    /\ ExportIdle
    /\ MetaIdle
    /\ SerpIdle
    /\ ExportAnalysisIdle
    /\ RunIdle
    /\ MultiIdle
    /\ SiteIdle
    /\ SitesIdle
    /\ CategorizeIdle

SpecVerify ==
    /\ InitVerify
    /\ [][NextVerify]_vars

NextSearch ==
    \/ /\ SearchCall
       /\ UNCHANGED <<verifyVars, domainVars, findVars, analyzeVars, exportVars, metaVars,
                      serpVars, exportAnalysisVars, runVars, multiVars, siteVars, sitesVars, categorizeVars>>
    \/ /\ spc = "await"
       /\ \E outcome \in ApiOutcomes(calls[Len(calls)].start, calls[Len(calls)].num) :
              PageSettle(outcome)
       /\ UNCHANGED <<verifyVars, domainVars, findVars, analyzeVars, exportVars, metaVars,
                      serpVars, exportAnalysisVars, runVars, multiVars, siteVars, sitesVars, categorizeVars>>

InitSearch ==
    /\ SearchInit
    /\ VerifyIdle
    /\ DomainsIdle
    /\ FindIdle
    /\ AnalyzeIdle
    /\ ExportIdle
    /\ MetaIdle
    /\ SerpIdle
    /\ ExportAnalysisIdle
    /\ RunIdle
    /\ MultiIdle
    /\ SiteIdle
    /\ SitesIdle
    /\ CategorizeIdle

SpecSearch ==
    /\ InitSearch
    /\ [][NextSearch]_vars

NextDomains ==
    \/ /\ DomainsCall
       /\ UNCHANGED <<verifyVars, searchVars, findVars, analyzeVars, exportVars, metaVars,
                      serpVars, exportAnalysisVars, runVars, multiVars, siteVars, sitesVars, categorizeVars>>
    \/ /\ DomainsAgain
       /\ UNCHANGED <<verifyVars, searchVars, findVars, analyzeVars, exportVars, metaVars,
                      serpVars, exportAnalysisVars, runVars, multiVars, siteVars, sitesVars, categorizeVars>>
    \/ /\ DomainsTwice
       /\ UNCHANGED <<verifyVars, searchVars, findVars, analyzeVars, exportVars, metaVars,
                      serpVars, exportAnalysisVars, runVars, multiVars, siteVars, sitesVars, categorizeVars>>

InitDomains ==
    /\ DomainsInit
    /\ VerifyIdle
    /\ SearchIdle
    /\ FindIdle
    /\ AnalyzeIdle
    /\ ExportIdle
    /\ MetaIdle
    /\ SerpIdle
    /\ ExportAnalysisIdle
    /\ RunIdle
    /\ MultiIdle
    /\ SiteIdle
    /\ SitesIdle
    /\ CategorizeIdle

SpecDomains ==
    /\ InitDomains
    /\ [][NextDomains]_vars

NextFind ==
    \/ /\ FindCall
       /\ UNCHANGED <<verifyVars, domainVars, analyzeVars, exportVars, metaVars, serpVars,
                      exportAnalysisVars, runVars, multiVars, siteVars, sitesVars, categorizeVars>>
    \/ /\ spc = "await"
       /\ \E outcome \in ApiOutcomes(calls[Len(calls)].start, calls[Len(calls)].num) :
              PageSettle(outcome)
       /\ UNCHANGED <<verifyVars, domainVars, findVars, analyzeVars, exportVars, metaVars,
                      serpVars, exportAnalysisVars, runVars, multiVars, siteVars, sitesVars, categorizeVars>>
    \/ /\ FindReturn
       /\ UNCHANGED <<verifyVars, searchVars, domainVars, analyzeVars, exportVars, metaVars,
                      serpVars, exportAnalysisVars, runVars, multiVars, siteVars, sitesVars, categorizeVars>>
    \/ /\ FindCatch
       /\ UNCHANGED <<verifyVars, searchVars, domainVars, analyzeVars, exportVars, metaVars,
                      serpVars, exportAnalysisVars, runVars, multiVars, siteVars, sitesVars, categorizeVars>>

InitFind ==
    /\ FindInit
    /\ VerifyIdle
    /\ SearchIdle
    /\ DomainsIdle
    /\ AnalyzeIdle
    /\ ExportIdle
    /\ MetaIdle
    /\ SerpIdle
    /\ ExportAnalysisIdle
    /\ RunIdle
    /\ MultiIdle
    /\ SiteIdle
    /\ SitesIdle
    /\ CategorizeIdle

SpecFind ==
    /\ InitFind
    /\ [][NextFind]_vars

NextAnalyze ==
    \/ /\ AnalyzeCall
       /\ UNCHANGED <<verifyVars, domainVars, exportVars, metaVars, serpVars,
                      exportAnalysisVars, runVars, multiVars, siteVars, sitesVars, categorizeVars>>
    \/ /\ spc = "await"
       /\ \E outcome \in ApiOutcomes(calls[Len(calls)].start, calls[Len(calls)].num) :
              PageSettle(outcome)
       /\ UNCHANGED <<verifyVars, domainVars, findVars, analyzeVars, exportVars, metaVars,
                      serpVars, exportAnalysisVars, runVars, multiVars, siteVars, sitesVars, categorizeVars>>
    \/ /\ SerpReturn
       /\ UNCHANGED <<verifyVars, domainVars, exportVars, metaVars, serpVars,
                      exportAnalysisVars, runVars, multiVars, siteVars, sitesVars, categorizeVars>>
    \/ /\ SerpCatch
       /\ UNCHANGED <<verifyVars, domainVars, exportVars, metaVars, serpVars,
                      exportAnalysisVars, runVars, multiVars, siteVars, sitesVars, categorizeVars>>
    \/ /\ FindReturn
       /\ UNCHANGED <<verifyVars, searchVars, domainVars, analyzeVars, exportVars, metaVars,
                      serpVars, exportAnalysisVars, runVars, multiVars, siteVars, sitesVars, categorizeVars>>
    \/ /\ FindCatch
       /\ UNCHANGED <<verifyVars, searchVars, domainVars, analyzeVars, exportVars, metaVars,
                      serpVars, exportAnalysisVars, runVars, multiVars, siteVars, sitesVars, categorizeVars>>
    \/ /\ AnalyzePush
       /\ UNCHANGED <<verifyVars, domainVars, exportVars, metaVars, serpVars,
                      exportAnalysisVars, runVars, multiVars, siteVars, sitesVars, categorizeVars>>
    \/ /\ AnalyzeFindFailed
       /\ UNCHANGED <<verifyVars, domainVars, exportVars, metaVars, serpVars,
                      exportAnalysisVars, runVars, multiVars, siteVars, sitesVars, categorizeVars>>

InitAnalyze ==
    /\ AnalyzeInit
    /\ VerifyIdle
    /\ SearchIdle
    /\ DomainsIdle
    /\ FindIdle
    /\ ExportIdle
    /\ MetaIdle
    /\ SerpIdle
    /\ ExportAnalysisIdle
    /\ RunIdle
    /\ MultiIdle
    /\ SiteIdle
    /\ SitesIdle
    /\ CategorizeIdle

SpecAnalyze ==
    /\ InitAnalyze
    /\ [][NextAnalyze]_vars

NextMeta ==
    \/ /\ MetaCall
       /\ UNCHANGED <<verifyVars, searchVars, domainVars, findVars, analyzeVars, exportVars,
                      serpVars, exportAnalysisVars, runVars, multiVars, siteVars, sitesVars, categorizeVars>>
    \/ /\ \E j \in 1..MaxConcurrentRequests, outcome \in MetaFetchOutcomes :
              MetaFetchSettle(j, outcome)
       /\ UNCHANGED <<verifyVars, searchVars, domainVars, findVars, analyzeVars, exportVars,
                      serpVars, exportAnalysisVars, runVars, multiVars, siteVars, sitesVars, categorizeVars>>
    \/ /\ MetaBatchJoin
       /\ UNCHANGED <<verifyVars, searchVars, domainVars, findVars, analyzeVars, exportVars,
                      serpVars, exportAnalysisVars, runVars, multiVars, siteVars, sitesVars, categorizeVars>>

InitMeta ==
    /\ MetaInit
    /\ VerifyIdle
    /\ SearchIdle
    /\ DomainsIdle
    /\ FindIdle
    /\ AnalyzeIdle
    /\ ExportIdle
    /\ SerpIdle
    /\ ExportAnalysisIdle
    /\ RunIdle
    /\ MultiIdle
    /\ SiteIdle
    /\ SitesIdle
    /\ CategorizeIdle

SpecMeta ==
    /\ InitMeta
    /\ [][NextMeta]_vars

NextExport ==
    \/ /\ ExportCall
       /\ UNCHANGED <<verifyVars, searchVars, domainVars, findVars, analyzeVars, metaVars,
                      serpVars, exportAnalysisVars, runVars, multiVars, siteVars, sitesVars, categorizeVars>>
    \/ /\ \E outcome \in FsOutcomes : EnsureDirSettle(outcome)
       /\ UNCHANGED <<verifyVars, searchVars, domainVars, findVars, analyzeVars, metaVars,
                      serpVars, exportAnalysisVars, runVars, multiVars, siteVars, sitesVars, categorizeVars>>
    \/ /\ \E outcome \in FsOutcomes : WriteSettle(outcome)
       /\ UNCHANGED <<verifyVars, searchVars, domainVars, findVars, analyzeVars, metaVars,
                      serpVars, exportAnalysisVars, runVars, multiVars, siteVars, sitesVars, categorizeVars>>

InitExport ==
    /\ ExportInit
    /\ VerifyIdle
    /\ SearchIdle
    /\ DomainsIdle
    /\ FindIdle
    /\ AnalyzeIdle
    /\ MetaIdle
    /\ SerpIdle
    /\ ExportAnalysisIdle
    /\ RunIdle
    /\ MultiIdle
    /\ SiteIdle
    /\ SitesIdle
    /\ CategorizeIdle

SpecExport ==
    /\ InitExport
    /\ [][NextExport]_vars

NextSerp ==
    \/ /\ SerpCall
       /\ UNCHANGED <<verifyVars, searchVars, domainVars, findVars, analyzeVars, exportVars,
                      metaVars, exportAnalysisVars, runVars, multiVars, siteVars, sitesVars, categorizeVars>>
    \/ /\ gpc = "await"
       /\ \E outcome \in SerpApiOutcomes(glog[Len(glog)].start, glog[Len(glog)].num) :
              SerpPageSettle(outcome)
       /\ UNCHANGED <<verifyVars, searchVars, domainVars, findVars, analyzeVars, exportVars,
                      metaVars, exportAnalysisVars, runVars, multiVars, siteVars, sitesVars, categorizeVars>>
    \/ /\ SerpDelayOver
       /\ UNCHANGED <<verifyVars, searchVars, domainVars, findVars, analyzeVars, exportVars,
                      metaVars, exportAnalysisVars, runVars, multiVars, siteVars, sitesVars, categorizeVars>>

InitSerp ==
    /\ SerpInit
    /\ VerifyIdle
    /\ SearchIdle
    /\ DomainsIdle
    /\ FindIdle
    /\ AnalyzeIdle
    /\ ExportIdle
    /\ MetaIdle
    /\ ExportAnalysisIdle
    /\ RunIdle
    /\ MultiIdle
    /\ SiteIdle
    /\ SitesIdle
    /\ CategorizeIdle

SpecSerp ==
    /\ InitSerp
    /\ [][NextSerp]_vars

NextBatches ==
    \/ /\ VerifyCall
       /\ UNCHANGED <<searchVars, domainVars, findVars, analyzeVars, exportVars, metaVars,
                      serpVars, exportAnalysisVars, runVars, multiVars, siteVars, sitesVars, categorizeVars>>
    \/ /\ \E j \in 1..(MaxConcurrent + DefaultMaxConcurrent), outcome \in FetchOutcomes :
              FetchSettle(j, outcome)
       /\ UNCHANGED <<searchVars, domainVars, findVars, analyzeVars, exportVars, metaVars,
                      serpVars, exportAnalysisVars, runVars, multiVars, siteVars, sitesVars, categorizeVars>>
    \/ /\ BatchJoin
       /\ UNCHANGED <<searchVars, domainVars, findVars, analyzeVars, exportVars, metaVars,
                      serpVars, exportAnalysisVars, runVars, multiVars, siteVars, sitesVars, categorizeVars>>
    \/ /\ MetaCall
       /\ UNCHANGED <<verifyVars, searchVars, domainVars, findVars, analyzeVars, exportVars,
                      serpVars, exportAnalysisVars, runVars, multiVars, siteVars, sitesVars, categorizeVars>>
    \/ /\ \E j \in 1..MaxConcurrentRequests, outcome \in MetaFetchOutcomes :
              MetaFetchSettle(j, outcome)
       /\ UNCHANGED <<verifyVars, searchVars, domainVars, findVars, analyzeVars, exportVars,
                      serpVars, exportAnalysisVars, runVars, multiVars, siteVars, sitesVars, categorizeVars>>
    \/ /\ MetaBatchJoin
       /\ UNCHANGED <<verifyVars, searchVars, domainVars, findVars, analyzeVars, exportVars,
                      serpVars, exportAnalysisVars, runVars, multiVars, siteVars, sitesVars, categorizeVars>>

InitBatches == InitVerify \/ InitMeta

SpecBatches ==
    /\ InitBatches
    /\ [][NextBatches]_vars

NextRun ==
    \/ /\ RunCall
       /\ UNCHANGED <<domainVars, serpVars, multiVars,
                      siteVars, sitesVars, categorizeVars>>
    \/ /\ spc = "await"
       /\ \E outcome \in ApiOutcomes(calls[Len(calls)].start, calls[Len(calls)].num) :
              PageSettle(outcome)
       /\ UNCHANGED <<verifyVars, domainVars, findVars, analyzeVars, exportVars, metaVars,
                      serpVars, exportAnalysisVars, runVars, multiVars, siteVars, sitesVars, categorizeVars>>
    \/ /\ SearchDone
       /\ UNCHANGED <<domainVars, serpVars, multiVars,
                      siteVars, sitesVars, categorizeVars>>
    \/ /\ \E j \in 1..MaxConcurrentRequests, outcome \in MetaFetchOutcomes :
              MetaFetchSettle(j, outcome)
       /\ UNCHANGED <<verifyVars, searchVars, domainVars, findVars, analyzeVars, exportVars,
                      serpVars, exportAnalysisVars, runVars, multiVars, siteVars, sitesVars, categorizeVars>>
    \/ /\ MetaBatchJoin
       /\ UNCHANGED <<verifyVars, searchVars, domainVars, findVars, analyzeVars, exportVars,
                      serpVars, exportAnalysisVars, runVars, multiVars, siteVars, sitesVars, categorizeVars>>
    \/ /\ MetadataDone
       /\ UNCHANGED <<domainVars, serpVars, multiVars,
                      siteVars, sitesVars, categorizeVars>>
    \/ /\ FindReturn
       /\ UNCHANGED <<verifyVars, searchVars, domainVars, analyzeVars, exportVars, metaVars,
                      serpVars, exportAnalysisVars, runVars, multiVars, siteVars, sitesVars, categorizeVars>>
    \/ /\ FindCatch
       /\ UNCHANGED <<verifyVars, searchVars, domainVars, analyzeVars, exportVars, metaVars,
                      serpVars, exportAnalysisVars, runVars, multiVars, siteVars, sitesVars, categorizeVars>>
    \/ /\ FindDone
       /\ UNCHANGED <<domainVars, serpVars, multiVars,
                      siteVars, sitesVars, categorizeVars>>
    \/ /\ \E j \in 1..(MaxConcurrent + DefaultMaxConcurrent), outcome \in FetchOutcomes :
              FetchSettle(j, outcome)
       /\ UNCHANGED <<searchVars, domainVars, findVars, analyzeVars, exportVars, metaVars,
                      serpVars, exportAnalysisVars, runVars, multiVars, siteVars, sitesVars, categorizeVars>>
    \/ /\ BatchJoin
       /\ UNCHANGED <<searchVars, domainVars, findVars, analyzeVars, exportVars, metaVars,
                      serpVars, exportAnalysisVars, runVars, multiVars, siteVars, sitesVars, categorizeVars>>
    \/ /\ VerifyDone
       /\ UNCHANGED <<domainVars, serpVars, multiVars,
                      siteVars, sitesVars, categorizeVars>>
    \/ /\ \E outcome \in FsOutcomes : EnsureDirSettle(outcome)
       /\ UNCHANGED <<verifyVars, searchVars, domainVars, findVars, analyzeVars, metaVars,
                      serpVars, exportAnalysisVars, runVars, multiVars, siteVars, sitesVars, categorizeVars>>
    \/ /\ \E outcome \in FsOutcomes : WriteSettle(outcome)
       /\ UNCHANGED <<verifyVars, searchVars, domainVars, findVars, analyzeVars, metaVars,
                      serpVars, exportAnalysisVars, runVars, multiVars, siteVars, sitesVars, categorizeVars>>
    \/ /\ JsonDone
       /\ UNCHANGED <<domainVars, serpVars, multiVars,
                      siteVars, sitesVars, categorizeVars>>
    \/ /\ CsvDone
       /\ UNCHANGED <<domainVars, serpVars, multiVars,
                      siteVars, sitesVars, categorizeVars>>
    \/ /\ SerpReturn
       /\ UNCHANGED <<verifyVars, domainVars, exportVars, metaVars, serpVars,
                      exportAnalysisVars, runVars, multiVars, siteVars, sitesVars, categorizeVars>>
    \/ /\ SerpCatch
       /\ UNCHANGED <<verifyVars, domainVars, exportVars, metaVars, serpVars,
                      exportAnalysisVars, runVars, multiVars, siteVars, sitesVars, categorizeVars>>
    \/ /\ AnalyzePush
       /\ UNCHANGED <<verifyVars, domainVars, exportVars, metaVars, serpVars,
                      exportAnalysisVars, runVars, multiVars, siteVars, sitesVars, categorizeVars>>
    \/ /\ AnalyzeFindFailed
       /\ UNCHANGED <<verifyVars, domainVars, exportVars, metaVars, serpVars,
                      exportAnalysisVars, runVars, multiVars, siteVars, sitesVars, categorizeVars>>
    \/ /\ AnalyzeDone
       /\ UNCHANGED <<domainVars, serpVars, multiVars,
                      siteVars, sitesVars, categorizeVars>>
    \/ /\ FullExported
       /\ UNCHANGED <<verifyVars, searchVars, domainVars, findVars, analyzeVars, metaVars,
                      serpVars, runVars, multiVars, siteVars, sitesVars, categorizeVars>>
    \/ /\ SummaryExported
       /\ UNCHANGED <<verifyVars, searchVars, domainVars, findVars, analyzeVars, metaVars,
                      serpVars, runVars, multiVars, siteVars, sitesVars, categorizeVars>>
    \/ /\ DomainsExported
       /\ UNCHANGED <<verifyVars, searchVars, domainVars, findVars, analyzeVars, metaVars,
                      serpVars, runVars, multiVars, siteVars, sitesVars, categorizeVars>>
    \/ /\ BacklinksExported
       /\ UNCHANGED <<verifyVars, searchVars, domainVars, findVars, analyzeVars, metaVars,
                      serpVars, runVars, multiVars, siteVars, sitesVars, categorizeVars>>
    \/ /\ ExportAnalysisCatch
       /\ UNCHANGED <<verifyVars, searchVars, domainVars, findVars, analyzeVars, metaVars,
                      serpVars, runVars, multiVars, siteVars, sitesVars, categorizeVars>>
    \/ /\ ExportAnalysisDone
       /\ UNCHANGED <<domainVars, serpVars, multiVars,
                      siteVars, sitesVars, categorizeVars>>
    \/ /\ RunCatch
       /\ UNCHANGED <<domainVars, serpVars, multiVars,
                      siteVars, sitesVars, categorizeVars>>

InitRun ==
    /\ RunInit
    /\ VerifyIdle
    /\ SearchIdle
    /\ DomainsIdle
    /\ FindIdle
    /\ AnalyzeIdle
    /\ ExportIdle
    /\ MetaIdle
    /\ SerpIdle
    /\ ExportAnalysisIdle
    /\ MultiIdle
    /\ SiteIdle
    /\ SitesIdle
    /\ CategorizeIdle

SpecRun ==
    /\ InitRun
    /\ [][NextRun]_vars

NextMulti ==
    \/ /\ MultiCall
       /\ UNCHANGED <<verifyVars, searchVars, domainVars, findVars, analyzeVars, exportVars,
                      metaVars, exportAnalysisVars, runVars, siteVars, sitesVars, categorizeVars>>
    \/ /\ gpc = "await"
       /\ \E outcome \in SerpApiOutcomes(glog[Len(glog)].start, glog[Len(glog)].num) :
              SerpPageSettle(outcome)
       /\ UNCHANGED <<verifyVars, searchVars, domainVars, findVars, analyzeVars, exportVars,
                      metaVars, exportAnalysisVars, runVars, multiVars, siteVars, sitesVars, categorizeVars>>
    \/ /\ SerpDelayOver
       /\ UNCHANGED <<verifyVars, searchVars, domainVars, findVars, analyzeVars, exportVars,
                      metaVars, exportAnalysisVars, runVars, multiVars, siteVars, sitesVars, categorizeVars>>
    \/ /\ MultiSearchDone
       /\ UNCHANGED <<verifyVars, searchVars, domainVars, findVars, analyzeVars, exportVars,
                      metaVars, exportAnalysisVars, runVars, siteVars, sitesVars, categorizeVars>>
    \/ /\ MultiDelayOver
       /\ UNCHANGED <<verifyVars, searchVars, domainVars, findVars, analyzeVars, exportVars,
                      metaVars, exportAnalysisVars, runVars, siteVars, sitesVars, categorizeVars>>

InitMulti ==
    /\ MultiInit
    /\ VerifyIdle
    /\ SearchIdle
    /\ DomainsIdle
    /\ FindIdle
    /\ AnalyzeIdle
    /\ ExportIdle
    /\ MetaIdle
    /\ SerpIdle
    /\ ExportAnalysisIdle
    /\ RunIdle
    /\ SiteIdle
    /\ SitesIdle
    /\ CategorizeIdle

SpecMulti ==
    /\ InitMulti
    /\ [][NextMulti]_vars

NextSite ==
    \/ /\ SiteCall
       /\ UNCHANGED <<verifyVars, searchVars, domainVars, findVars, analyzeVars, exportVars,
                      metaVars, serpVars, exportAnalysisVars, runVars, multiVars, sitesVars, categorizeVars>>
    \/ /\ upc = "await"
       /\ \E outcome \in SiteFetchOutcomes : SiteFetchSettle(outcome)
       /\ UNCHANGED <<verifyVars, searchVars, domainVars, findVars, analyzeVars, exportVars,
                      metaVars, serpVars, exportAnalysisVars, runVars, multiVars, sitesVars, categorizeVars>>

InitSite ==
    /\ SiteInit
    /\ VerifyIdle
    /\ SearchIdle
    /\ DomainsIdle
    /\ FindIdle
    /\ AnalyzeIdle
    /\ ExportIdle
    /\ MetaIdle
    /\ SerpIdle
    /\ ExportAnalysisIdle
    /\ RunIdle
    /\ MultiIdle
    /\ SitesIdle
    /\ CategorizeIdle

SpecSite ==
    /\ InitSite
    /\ [][NextSite]_vars

NextSites ==
    \/ /\ SitesCall
       /\ UNCHANGED <<verifyVars, searchVars, domainVars, findVars, analyzeVars, exportVars,
                      metaVars, serpVars, exportAnalysisVars, runVars, multiVars, siteVars, categorizeVars>>
    \/ /\ bpc = "await"
       /\ \E j \in 1..MaxSites, outcome \in BatchFetchOutcomes :
              SitesFetchSettle(j, outcome)
       /\ UNCHANGED <<verifyVars, searchVars, domainVars, findVars, analyzeVars, exportVars,
                      metaVars, serpVars, exportAnalysisVars, runVars, multiVars, siteVars, categorizeVars>>
    \/ /\ SitesBatchJoin
       /\ UNCHANGED <<verifyVars, searchVars, domainVars, findVars, analyzeVars, exportVars,
                      metaVars, serpVars, exportAnalysisVars, runVars, multiVars, siteVars, categorizeVars>>
    \/ /\ SitesPauseOver
       /\ UNCHANGED <<verifyVars, searchVars, domainVars, findVars, analyzeVars, exportVars,
                      metaVars, serpVars, exportAnalysisVars, runVars, multiVars, siteVars, categorizeVars>>

InitSites ==
    /\ SitesInit
    /\ VerifyIdle
    /\ SearchIdle
    /\ DomainsIdle
    /\ FindIdle
    /\ AnalyzeIdle
    /\ ExportIdle
    /\ MetaIdle
    /\ SerpIdle
    /\ ExportAnalysisIdle
    /\ RunIdle
    /\ MultiIdle
    /\ SiteIdle
    /\ CategorizeIdle

SpecSites ==
    /\ InitSites
    /\ [][NextSites]_vars

NextSubmission ==
    \/ /\ SiteCall
       /\ UNCHANGED <<verifyVars, searchVars, domainVars, findVars, analyzeVars, exportVars,
                      metaVars, serpVars, exportAnalysisVars, runVars, multiVars, sitesVars, categorizeVars>>
    \/ /\ upc = "await"
       /\ \E outcome \in SiteFetchOutcomes : SiteFetchSettle(outcome)
       /\ UNCHANGED <<verifyVars, searchVars, domainVars, findVars, analyzeVars, exportVars,
                      metaVars, serpVars, exportAnalysisVars, runVars, multiVars, sitesVars, categorizeVars>>
    \/ /\ SitesCall
       /\ UNCHANGED <<verifyVars, searchVars, domainVars, findVars, analyzeVars, exportVars,
                      metaVars, serpVars, exportAnalysisVars, runVars, multiVars, siteVars, categorizeVars>>
    \/ /\ bpc = "await"
       /\ \E j \in 1..MaxSites, outcome \in BatchFetchOutcomes :
              SitesFetchSettle(j, outcome)
       /\ UNCHANGED <<verifyVars, searchVars, domainVars, findVars, analyzeVars, exportVars,
                      metaVars, serpVars, exportAnalysisVars, runVars, multiVars, siteVars, categorizeVars>>
    \/ /\ SitesBatchJoin
       /\ UNCHANGED <<verifyVars, searchVars, domainVars, findVars, analyzeVars, exportVars,
                      metaVars, serpVars, exportAnalysisVars, runVars, multiVars, siteVars, categorizeVars>>
    \/ /\ SitesPauseOver
       /\ UNCHANGED <<verifyVars, searchVars, domainVars, findVars, analyzeVars, exportVars,
                      metaVars, serpVars, exportAnalysisVars, runVars, multiVars, siteVars, categorizeVars>>

InitSubmission == InitSite \/ InitSites

SpecSubmission ==
    /\ InitSubmission
    /\ [][NextSubmission]_vars

NextCategorize ==
    \/ /\ CategorizeCall
       /\ UNCHANGED <<verifyVars, searchVars, domainVars, findVars, analyzeVars, exportVars,
                      metaVars, serpVars, exportAnalysisVars, runVars, multiVars, siteVars, sitesVars>>

InitCategorize ==
    /\ CategorizeInit
    /\ VerifyIdle
    /\ SearchIdle
    /\ DomainsIdle
    /\ FindIdle
    /\ AnalyzeIdle
    /\ ExportIdle
    /\ MetaIdle
    /\ SerpIdle
    /\ ExportAnalysisIdle
    /\ RunIdle
    /\ MultiIdle
    /\ SiteIdle
    /\ SitesIdle

SpecCategorize ==
    /\ InitCategorize
    /\ [][NextCategorize]_vars

\* verifyBacklinks with every page fetch settling sooner or later and the
\* function running whenever it can
SpecVerifyLive ==
    /\ SpecVerify
    /\ WF_vars(NextVerify)

-----------------------------------------------------------------------------
(* Properties of verifyBacklinks *)

\* the positions of the input whose request was answered / failed
Answered == { k \in DOMAIN fetched : fetched[k].kind = "response" }

Failed == { k \in DOMAIN fetched : fetched[k].kind = "error" }

\* C1: the list verifyBacklinks returns has the length of its input, and its
\* k-th record carries every field of the k-th input backlink, whatever the
\* outcomes of the fetches
C1_CardinalityAndOrder ==
    vpc = "returned" =>
        /\ Len(vret) = Len(backlinks)
        /\ \A k \in DOMAIN backlinks :
               \A f \in DOMAIN backlinks[k] :
                   f \in DOMAIN vret[k] /\ vret[k][f] = backlinks[k][f]

\* a call with two different backlinks in two batches, every fetch failing
C1_Witness ==
    /\ vpc = "returned"
    /\ Len(backlinks) = 3
    /\ backlinks[1] # backlinks[2]
    /\ maxConcurrent = 2
    /\ Failed = DOMAIN backlinks

\* C2: a backlink whose fetch throws is not dropped: its record has
\* verified = false, an empty links sequence and the error's message
C2_FailedFetchHasEmptyLinks ==
    vpc = "returned" =>
        \A k \in Failed :
            /\ k \in DOMAIN vret
            /\ vret[k].verified = FALSE
            /\ "links" \in DOMAIN vret[k]
            /\ vret[k].links = <<>>
            /\ "error" \in DOMAIN vret[k]
            /\ vret[k].error = fetched[k].error.message

\* the target with its scheme and its path stripped
BareHostname(target) ==
    LET rest == IF StartsWith(target, <<"h", "t", "t", "p", "s", ":", "/", "/">>)
                THEN SubSeq(target, 9, Len(target))
                ELSE IF StartsWith(target, <<"h", "t", "t", "p", ":", "/", "/">>)
                     THEN SubSeq(target, 8, Len(target))
                     ELSE target
        n    == CHOOSE m \in 0..Len(rest) :
                    /\ \A q \in 1..m : rest[q] # "/"
                    /\ m = Len(rest) \/ rest[m + 1] = "/"
    IN  SubSeq(rest, 1, n)

\* the positions of the anchors of a page whose href contains host
MatchingAnchors(page, host) ==
    { a \in DOMAIN page :
        "href" \in DOMAIN page[a].attrs /\ Includes(page[a].attrs.href, host) }

\* C3: for a fetched page, verified is true exactly when an anchor's href
\* contains the target's bare hostname; the links are the matching anchors in
\* document order, one entry each, isNofollow telling whether rel contains
\* 'nofollow'; with no match links is empty; statusCode is the HTTP status
C3_VerifiedIffAnchorMatches ==
    vpc = "returned" =>
        \A k \in Answered :
            LET page  == fetched[k].response.data
                match == MatchingAnchors(page, BareHostname(targetUrl))
                rec   == vret[k]
            IN  /\ rec.verified = (match # {})
                /\ Len(rec.links) = Cardinality(match)
                /\ rec.statusCode = fetched[k].response.status
                /\ \A a \in match :
                       LET n == Cardinality({ b \in match : b <= a })
                       IN  /\ rec.links[n].href = page[a].attrs.href
                           /\ rec.links[n].isNofollow =
                                  ( /\ "rel" \in DOMAIN page[a].attrs
                                    /\ Includes(page[a].attrs.rel, Nofollow) )
                           /\ DOMAIN rec.links[n] = {"href", "anchorText", "isNofollow"}

\* one page with several matching anchors, with and without nofollow, and one
\* fetched page without any
C3_Witness ==
    /\ vpc = "returned"
    /\ \E k \in Answered :
           /\ Len(vret[k].links) >= 2
           /\ \E n, m \in DOMAIN vret[k].links :
                  vret[k].links[n].isNofollow /\ ~vret[k].links[m].isNofollow
    /\ \E k \in Answered :
           /\ ~vret[k].verified
           /\ vret[k].statusCode = 200
           /\ fetched[k].response.data # <<>>

\* C4: the record of a failed fetch has the HTTP status the exception
\* carries, or 0 when it carries none, and the exception's message
C4_FailedFetchStatus ==
    vpc = "returned" =>
        \A k \in Failed :
            LET error == fetched[k].error
            IN  /\ vret[k].statusCode =
                       (IF "response" \in DOMAIN error THEN error.response.status ELSE 0)
                /\ vret[k].error = error.message
                /\ vret[k].verified = FALSE

\* one failure with an HTTP status and one without in the same call
C4_Witness ==
    /\ vpc = "returned"
    /\ \E k, m \in Failed :
           /\ vret[k].statusCode = 404
           /\ vret[m].statusCode = 0
           /\ vret[k].error # vret[m].error

\* C17: called with an empty list, verifyBacklinks passes no loop test: it
\* returns the empty list at once, no batch is formed and no fetch is issued
C17_EmptyInputNoFetch ==
    backlinks = <<>> =>
        /\ vpc \in {"called", "returned"}
        /\ batch = <<>> /\ batchPromises = <<>>
        /\ fetched = <<>>
        /\ vpc = "returned" => vret = <<>>
        /\ \A j \in 1..(MaxConcurrent + DefaultMaxConcurrent), outcome \in FetchOutcomes :
               ~ENABLED FetchSettle(j, outcome)

\* calls with the empty list that returned, for a batch size of 0 and of 2
C17_Witness ==
    /\ backlinks = <<>>
    /\ vpc = "returned"
    /\ vret = <<>>
    /\ maxConcurrent \in {0, 2}

\* the positions of the input whose fetch is outstanding
Outstanding ==
    IF vpc = "await"
    THEN { i + j : j \in { n \in DOMAIN batchPromises : batchPromises[n] = Pending } }
    ELSE {}

\* the window of the input that position k belongs to, counted from 0
WindowOf(k) == (k - 1) \div maxConcurrent

\* C19: the input is processed in consecutive windows of maxConcurrent items:
\* never more than maxConcurrent fetches are outstanding, the outstanding
\* fetches belong to one window, and every fetch of the windows before it has
\* completed (with a response or an error)
C19_WindowsDoNotOverlap ==
    /\ Cardinality(Outstanding) <= maxConcurrent
    /\ \A k \in Outstanding :
           /\ k \in DOMAIN backlinks
           /\ fetched[k] = NotFetched
           /\ \A m \in Outstanding : WindowOf(m) = WindowOf(k)
           /\ \A m \in DOMAIN backlinks :
                  WindowOf(m) < WindowOf(k) => fetched[m] # NotFetched
           /\ \A m \in DOMAIN backlinks :
                  WindowOf(m) > WindowOf(k) => fetched[m] = NotFetched
    /\ vpc = "await" => batch = SubSeq(backlinks, i + 1, Min(i + maxConcurrent, Len(backlinks)))

\* the second window of two is under way: one of its fetches is outstanding,
\* the other failed, and both fetches of the first window have completed
C19_Witness ==
    /\ Len(backlinks) = 3
    /\ maxConcurrent = 1
    /\ Outstanding = {2}
    /\ fetched[1].kind = "error"
    /\ fetched[3] = NotFetched

\* C25: whatever the input list and the concurrency parameter, once every
\* page fetch settles, verifyBacklinks returns
C25_Terminates == <>(vpc = "returned")

-----------------------------------------------------------------------------
(* Properties of searchGoogle *)

\* the items of the settled page calls, in call order
RECURSIVE ItemsReturned(_)
ItemsReturned(log) ==
    IF log = <<>> THEN <<>>
    ELSE LET last == log[Len(log)]
             rest == ItemsReturned(SubSeq(log, 1, Len(log) - 1))
         IN  IF /\ last.outcome.kind = "response"
                /\ "items" \in DOMAIN last.outcome.response.data
             THEN rest \o last.outcome.response.data.items
             ELSE rest

\* the number of items a settled page call returned
ItemCount(call) ==
    IF /\ call.outcome.kind = "response"
       /\ "items" \in DOMAIN call.outcome.response.data
    THEN Len(call.outcome.response.data.items)
    ELSE 0

\* the least number of pages of PageSize that hold n results
PagesFor(n) == CHOOSE c \in 0..n : c * PageSize >= n /\ \A d \in 0..(c - 1) : d * PageSize < n

\* C5: searchGoogle returns at most numResults results, in the order the API
\* returned them: page after page, and within a page in the page's order
C5_AtMostNInApiOrder ==
    spc = "returned" =>
        /\ Len(sret) <= numResults
        /\ Len(sret) = Len(ItemsReturned(calls))
        /\ \A k \in DOMAIN sret :
               LET item == ItemsReturned(calls)[k]
               IN  /\ sret[k].title = item.title
                   /\ sret[k].link = item.link
                   /\ sret[k].snippet = item.snippet
                   /\ sret[k].displayLink = item.displayLink

\* three pages, the last one cut to what is still missing, all of them full
C5_Witness ==
    /\ spc = "returned"
    /\ Len(calls) = 3
    /\ Len(sret) = numResults
    /\ numResults > 2 * PageSize

\* C6 as stated: exactly ceil(N/10) page calls are made unless a page returns
\* fewer items than requested, and after such a page no further call is made
C6_StopsOnShortPage ==
    /\ \A j \in DOMAIN calls :
           (calls[j].outcome.kind = "response" /\ ItemCount(calls[j]) < calls[j].num)
               => j = Len(calls)
    /\ ( /\ spc = "returned"
         /\ \A j \in DOMAIN calls : ItemCount(calls[j]) = calls[j].num )
           => Len(calls) = PagesFor(numResults)

\* C6 as amended: never more than ceil(N/10) page calls are made; a page
\* without items or a failed call is the last call; when the search returns
\* and every page had at least one item, exactly ceil(N/10) calls were made
C6_StopsOnEmptyPage ==
    /\ Len(calls) <= PagesFor(numResults)
    /\ \A j \in DOMAIN calls :
           (calls[j].outcome.kind # "pending" /\ ItemCount(calls[j]) = 0)
               => j = Len(calls)
    /\ ( /\ spc = "returned"
         /\ \A j \in DOMAIN calls : ItemCount(calls[j]) > 0 )
           => Len(calls) = PagesFor(numResults)

\* a short first page followed by two more calls, and a search an empty
\* second page ended
C6_Witness ==
    /\ spc = "returned"
    /\ \/ /\ Len(calls) = 3
          /\ ItemCount(calls[1]) \in 1..(PageSize - 1)
       \/ /\ numResults > 2 * PageSize
          /\ Len(calls) = 2
          /\ ItemCount(calls[2]) = 0

\* C7: when a page call fails the search fails with that error: the failed
\* call is the last one made and nothing is returned, whatever was collected
C7_FailedPageAborts ==
    \A j \in DOMAIN calls :
        calls[j].outcome.kind = "error" =>
            /\ j = Len(calls)
            /\ spc = "threw"
            /\ sthrown = calls[j].outcome.error
            /\ sret = <<>>

\* the third page call fails after two pages of results were collected
C7_Witness ==
    /\ spc = "threw"
    /\ Len(calls) = 3
    /\ Len(allResults) > PageSize
    /\ sthrown \in SearchErrors

\* the number of items the page calls before call j returned
RECURSIVE CollectedBefore(_)
CollectedBefore(j) ==
    IF j <= 1 THEN 0 ELSE CollectedBefore(j - 1) + ItemCount(calls[j - 1])

\* C21: every page call asks for min(10, numResults - collected so far) items
\* from the next page offset; a page with items is followed by the next call
\* as long as fewer than ceil(numResults / 10) calls were made, and a page
\* without items ends the search: a search that returned after fewer calls
\* ended on a page without items
C21_RequestSizeAndEarlyStop ==
    /\ \A j \in DOMAIN calls :
           /\ calls[j].start = (j - 1) * PageSize + 1
           /\ calls[j].num = Min(PageSize, numResults - CollectedBefore(j))
           /\ (ItemCount(calls[j]) > 0 /\ j < PagesFor(numResults)) => j < Len(calls)
           /\ (calls[j].outcome.kind = "response" /\ ItemCount(calls[j]) = 0)
                  => (j = Len(calls) /\ spc = "returned")
    /\ (spc = "returned" /\ Len(calls) < PagesFor(numResults))
           => (Len(calls) > 0 /\ ItemCount(calls[Len(calls)]) = 0)

\* a short first page is followed by a second call that asks for what is
\* still missing, and the empty second page ends a search that wanted three
C21_Witness ==
    /\ spc = "returned"
    /\ numResults > 2 * PageSize
    /\ Len(calls) = 2
    /\ ItemCount(calls[1]) \in 1..(PageSize - 1)
    /\ calls[2].num = PageSize
    /\ ItemCount(calls[2]) = 0

\* C26: what searchGoogle returns is a prefix of the API's ranking without
\* gaps: the k-th result returned is the item the API ranks k-th
C26_GapFreePrefix ==
    spc = "returned" =>
        \A k \in DOMAIN sret :
            /\ sret[k].link = ApiItem(k).link
            /\ sret[k].title = ApiItem(k).title

-----------------------------------------------------------------------------
(* Properties of getUniqueReferringDomains *)

\* the positions of the argument whose sourceUrl the URL constructor accepts
Parseable == { k \in DOMAIN dArg : UrlHostname(dArg[k].sourceUrl).ok }

HostnameAt(k) == UrlHostname(dArg[k].sourceUrl).hostname

\* the first parseable position of the argument with hostname h
FirstSeen(h) ==
    CHOOSE k \in Parseable :
        HostnameAt(k) = h /\ \A m \in Parseable : HostnameAt(m) = h => k <= m

\* C8: getUniqueReferringDomains does not throw; it returns the hostnames of
\* the parseable sourceUrls, each once, ordered by first occurrence in the
\* input, and nothing for an unparseable sourceUrl
C8_UniqueHostnamesFirstSeen ==
    /\ dpc # "threw"
    /\ dpc \in {"returned", "reapplied", "done"} =>
           /\ { dret[n] : n \in DOMAIN dret } = { HostnameAt(k) : k \in Parseable }
           /\ \A n, m \in DOMAIN dret : n # m => dret[n] # dret[m]
           /\ \A n, m \in DOMAIN dret : n < m => FirstSeen(dret[n]) < FirstSeen(dret[m])

\* an unparseable entry between two spellings of one host, after another host
C8_Witness ==
    /\ dpc = "returned"
    /\ Len(dret) = 2
    /\ \E a, b, c, d \in DOMAIN dArg :
           /\ d < a /\ a < b /\ b < c
           /\ a \in Parseable /\ c \in Parseable /\ d \in Parseable
           /\ b \notin Parseable
           /\ HostnameAt(a) = HostnameAt(c)
           /\ dArg[a].sourceUrl # dArg[c].sourceUrl
           /\ dret = <<HostnameAt(d), HostnameAt(a)>>

\* C9 as stated: applying getUniqueReferringDomains to its own result yields
\* the same set of hostnames
C9_Idempotent ==
    dpc \in {"reapplied", "done"} =>
        { dretAgain[n] : n \in DOMAIN dretAgain } = { dret[n] : n \in DOMAIN dret }

\* C9 as amended: applied to its own result (strings, which have no sourceUrl)
\* getUniqueReferringDomains returns the empty list; applied to the backlinks
\* listed twice it returns what it returns for the backlinks listed once
C9_EmptyOnOwnResultSameOnDoubledInput ==
    /\ dpc \in {"reapplied", "done"} => dretAgain = <<>>
    /\ dpc = "done" => dretTwice = dret

\* a call that found two hostnames, reapplied and repeated on doubled input
C9_Witness ==
    /\ dpc = "done"
    /\ Len(dret) >= 2
    /\ Len(dArg) > Len(dret)
    /\ dretAgain = <<>>
    /\ dretTwice = dret

-----------------------------------------------------------------------------
(* Properties of findBacklinks and findBacklinksForUrl *)

\* the input without a leading http:// or https:// and without one final "/"
StrippedDomain(domain) ==
    LET rest == IF StartsWith(domain, <<"h", "t", "t", "p", "s", ":", "/", "/">>)
                THEN SubSeq(domain, 9, Len(domain))
                ELSE IF StartsWith(domain, <<"h", "t", "t", "p", ":", "/", "/">>)
                     THEN SubSeq(domain, 8, Len(domain))
                     ELSE domain
    IN  IF rest # <<>> /\ rest[Len(rest)] = "/"
        THEN SubSeq(rest, 1, Len(rest) - 1)
        ELSE rest

\* C10: both finders return one backlink per search result, in order, with
\* sourceUrl = link and sourceTitle = title. findBacklinks tags them with the
\* domain stripped of scheme and trailing slash and searches for that domain
\* quoted, minus its own site; findBacklinksForUrl tags them with the URL as
\* given and searches for the quoted URL
C10_OneBacklinkPerResult ==
    /\ fpc \in {"await", "returned", "threw"} =>
           keywords = IF fname = "findBacklinks"
                      THEN <<"\"">> \o StrippedDomain(farg)
                               \o <<"\"", " ", "-", "s", "i", "t", "e", ":">>
                               \o StrippedDomain(farg)
                      ELSE <<"\"">> \o farg \o <<"\"">>
    /\ fpc = "returned" =>
           /\ Len(fret) = Len(sret)
           /\ \A k \in DOMAIN fret :
                  /\ fret[k].sourceUrl = sret[k].link
                  /\ fret[k].sourceTitle = sret[k].title
                  /\ IF fname = "findBacklinks"
                     THEN /\ fret[k].targetDomain = StrippedDomain(farg)
                          /\ "targetUrl" \notin DOMAIN fret[k]
                     ELSE /\ fret[k].targetUrl = farg
                          /\ "targetDomain" \notin DOMAIN fret[k]

\* findBacklinks for "https://t.io/" returning more than one page of results
C10_Witness ==
    /\ fpc = "returned"
    /\ fname = "findBacklinks"
    /\ Len(fret) > PageSize
    /\ fret[1].sourceUrl # fret[2].sourceUrl
    /\ fret[1].targetDomain = HostT
    /\ farg # HostT

\* C11: when the search under findBacklinks or findBacklinksForUrl fails, the
\* finder fails with the error the failed page call threw, unchanged, and
\* returns no backlinks; a finder that returned saw no failed call
C11_SearchErrorPropagates ==
    /\ fpc = "threw" =>
           /\ calls # <<>>
           /\ calls[Len(calls)].outcome.kind = "error"
           /\ fthrown = calls[Len(calls)].outcome.error
           /\ fret = <<>>
    /\ fpc = "returned" =>
           \A j \in DOMAIN calls : calls[j].outcome.kind # "error"
    /\ (fpc = "await" /\ spc = "threw") => ENABLED FindCatch

\* each finder failing with an error that carries an API response, after a
\* first page of results had been collected
C11_Witness ==
    /\ fpc = "threw"
    /\ "response" \in DOMAIN fthrown
    /\ Len(calls) = 2
    /\ Len(allResults) > 0
    /\ fret = <<>>

-----------------------------------------------------------------------------
(* Properties of analyzeTopRankingBacklinks *)

\* C12: an analysis that succeeds with n ranked pages has n records, in SERP
\* order: record k has position k and the url and title of topPages[k], which
\* is the page the search ranked k-th
C12_PositionsMatchSerpOrder ==
    apc = "returned" =>
        /\ Len(aret.topPages) <= aNumResults
        /\ Len(aret.backlinksAnalysis) = Len(aret.topPages)
        /\ \A k \in DOMAIN aret.topPages :
               /\ aret.topPages[k].position = k
               /\ aret.topPages[k].url = ApiItem(k).link
               /\ aret.backlinksAnalysis[k].position = k
               /\ aret.backlinksAnalysis[k].url = aret.topPages[k].url
               /\ aret.backlinksAnalysis[k].title = aret.topPages[k].title
               /\ lookups[k].url = aret.topPages[k].url

\* three ranked pages analysed, with different numbers of backlinks
C12_Witness ==
    /\ apc = "returned"
    /\ Len(aret.backlinksAnalysis) = 3
    /\ aret.backlinksAnalysis[1].backlinksCount # aret.backlinksAnalysis[3].backlinksCount
    /\ aret.backlinksAnalysis[2].url # aret.backlinksAnalysis[3].url

\* C13: a failed backlink lookup for one ranked page aborts the analysis: the
\* failed lookup is the last one made, the analysis fails with the lookup's
\* error and returns nothing, whatever records were built before
C13_FailedLookupAborts ==
    /\ \A j \in DOMAIN lookups :
           lookups[j].outcome.kind = "threw" =>
               /\ j = Len(lookups)
               /\ apc = "threw"
               /\ athrown = lookups[j].outcome.error
               /\ athrown = calls[Len(calls)].outcome.error
               /\ aret = NoAnalysis
    /\ (apc = "find" /\ fpc = "threw") => ENABLED AnalyzeFindFailed
    /\ apc = "returned" =>
           \A j \in DOMAIN lookups : lookups[j].outcome.kind = "returned"

\* the lookup for the second of three ranked pages fails after the record of
\* the first was built
C13_Witness ==
    /\ apc = "threw"
    /\ Len(topPages) = 3
    /\ Len(lookups) = 2
    /\ lookups[2].outcome.kind = "threw"
    /\ Len(backlinksAnalysis) = 1
    /\ aret = NoAnalysis

\* C22: the analysis is sequential over the ranked pages: the lookups are
\* made in rank order, only the last lookup made can be outstanding, and the
\* lookup for rank k + 1 is made only when the records of ranks 1..k are
\* appended (the record of a rank is appended when its lookup returns)
C22_SequentialInRankOrder ==
    /\ Len(lookups) <= Len(topPages)
    /\ \A k \in DOMAIN lookups :
           /\ lookups[k].url = topPages[k].url
           /\ topPages[k].position = k
           /\ lookups[k].outcome.kind = "pending" => (k = Len(lookups) /\ apc = "find")
           /\ Len(backlinksAnalysis) >= k - 1
           /\ lookups[k].outcome.kind = "returned" =>
                  /\ Len(backlinksAnalysis) >= k
                  /\ backlinksAnalysis[k].url = lookups[k].url
                  /\ backlinksAnalysis[k].backlinks = lookups[k].outcome.backlinks
    /\ apc = "find" =>
           /\ Len(lookups) = Len(backlinksAnalysis) + 1
           /\ lookups[Len(lookups)].outcome.kind = "pending"
           /\ farg = topPages[Len(lookups)].url
    /\ Len(backlinksAnalysis) <= Len(lookups)

\* the lookup for the third of three ranked pages is outstanding and the
\* records of the first two are appended
C22_Witness ==
    /\ apc = "find"
    /\ Len(topPages) = 3
    /\ Len(lookups) = 3
    /\ Len(backlinksAnalysis) = 2
    /\ lookups[3].outcome.kind = "pending"
    /\ lookups[1].url # lookups[3].url

-----------------------------------------------------------------------------
(* Properties of exportToCsv *)

\* every record of the array has the keys of every other
Homogeneous(items) == \A j, k \in DOMAIN items : DOMAIN items[j] = DOMAIN items[k]

\* the operations of the log that wrote a CSV file
CsvWrites == { n \in DOMAIN written : written[n].op = "writeRecords" }

\* C15: exportToCsv fails and writes no CSV file whenever its data is not an
\* array, is empty, or holds records whose key sets differ
C15_FailsOnMalformedData ==
    ( /\ ename = "exportToCsv"
      /\ \/ ~IsArray(eData)
         \/ Len(eData.items) = 0
         \/ ~Homogeneous(eData.items) )
        => /\ epc # "returned"
           /\ CsvWrites = {}

-----------------------------------------------------------------------------
(* Properties of extractMetadataFromUrls *)

MetaFailed == { k \in DOMAIN mfetched : mfetched[k].kind = "error" }

\* C16: extractMetadataFromUrls never fails: it returns one record per input
\* URL, in input order; the record of a URL whose fetch failed has that url,
\* the error's message, and empty title, description, keywords and headings
C16_OneRecordPerUrl ==
    /\ mpc \in {"called", "await", "returned"}
    /\ \A j \in DOMAIN mBatchPromises : mBatchPromises[j].state \in {"pending", "fulfilled"}
    /\ mpc = "returned" =>
           /\ Len(mret) = Len(urls)
           /\ \A k \in DOMAIN urls :
                  /\ "url" \in DOMAIN mret[k]
                  /\ mret[k].url = urls[k]
                  /\ mfetched[k] # NotFetched
                  /\ ("error" \in DOMAIN mret[k]) = (k \in MetaFailed)
           /\ \A k \in MetaFailed :
                  /\ mret[k].error = mfetched[k].error.message
                  /\ mret[k].title = <<>>
                  /\ mret[k].description = <<>>
                  /\ mret[k].keywords = <<>>
                  /\ mret[k].h1Tags = <<>> /\ mret[k].h2Tags = <<>> /\ mret[k].h3Tags = <<>>

\* three URLs in two batches: the first fetch fails, the second succeeds,
\* the third fails
C16_Witness ==
    /\ mpc = "returned"
    /\ Len(urls) = 3
    /\ urls[1] # urls[2]
    /\ MetaFailed = {1, 3}
    /\ mret[2].h1Tags # <<>>

-----------------------------------------------------------------------------
(* Properties of the two batch operations *)

\* C20: in verifyBacklinks and in extractMetadataFromUrls the output list
\* changes only when every member of the current batch has resolved, and then
\* by the batch's results in input order; while a batch is under way the
\* output holds the records of the batches before it and nothing else, record
\* k being the record of input k whatever the order the fetches completed in
C20_AppendOnlyWholeBatches ==
    /\ [](vpc = "await" =>
             /\ Len(verifiedBacklinks) = Min(i, Len(backlinks))
             /\ \A k \in DOMAIN verifiedBacklinks :
                    /\ verifiedBacklinks[k].sourceUrl = backlinks[k].sourceUrl
                    /\ ("error" \in DOMAIN verifiedBacklinks[k])
                           = (fetched[k].kind = "error"))
    /\ [](mpc = "await" =>
             /\ Len(results) = Min(mi, Len(urls))
             /\ \A k \in DOMAIN results :
                    /\ results[k].url = urls[k]
                    /\ ("error" \in DOMAIN results[k]) = (mfetched[k].kind = "error"))
    /\ [][ /\ verifiedBacklinks' # verifiedBacklinks =>
                 /\ \A j \in DOMAIN batchPromises : batchPromises[j].state = "fulfilled"
                 /\ Len(verifiedBacklinks') = Len(verifiedBacklinks) + Len(batch)
                 /\ \A k \in DOMAIN verifiedBacklinks :
                        verifiedBacklinks'[k] = verifiedBacklinks[k]
           /\ results' # results =>
                 /\ \A j \in DOMAIN mBatchPromises : mBatchPromises[j].state = "fulfilled"
                 /\ Len(results') = Len(results) + Len(mbatch)
                 /\ \A k \in DOMAIN results : results'[k] = results[k] ]_vars

\* in the second batch of extractMetadataFromUrls the second member has
\* resolved and the first has not: the output holds the two records of the
\* first batch and nothing else
C20_Witness ==
    /\ mpc = "await"
    /\ mi = 2
    /\ Len(mBatchPromises) = 2
    /\ mBatchPromises[1] = Pending
    /\ mBatchPromises[2].state = "fulfilled"
    /\ Len(results) = 2
    /\ results[1].url # results[2].url
    /\ mfetched[1].kind # mfetched[2].kind

-----------------------------------------------------------------------------
(* Properties of the SERP search of src/modules *)

IsCallEvent(e) == e.ev = "call"

\* error.code, 0 standing for undefined
CodeOf(error) == IF "code" \in DOMAIN error THEN error.code ELSE 0

\* the page calls of the log, in order
PageCalls == SelectSeq(glog, IsCallEvent)

\* the position in the log of the last page call before position n
CallBefore(n) == CHOOSE p \in 1..(n - 1) :
                    /\ glog[p].ev = "call"
                    /\ \A q \in (p + 1)..(n - 1) : glog[q].ev # "call"

C18_SerpAtMostN ==
    gpc = "returned" => Len(gret) <= gNumResults

-----------------------------------------------------------------------------
(* Properties of run *)

\* the files written since the running stage started (directories created are
\* not files)
StageWrites ==
    { n \in DOMAIN written : n > stageStart /\ written[n].op # "ensureDir" }

\* C14: run does not throw: an error propagated from a stage makes it return
\* {success: false, error}; and when it returns that failure, no file of the
\* stage that was running has been written
C14_FailureWithoutPartialExport ==
    /\ rpc \in {"idle", "called", "search", "metadata", "find", "verify", "json",
                "csv", "analyze", "exportAnalysis", "returned"}
    /\ (rpc = "returned" /\ ~rret.success) =>
           /\ DOMAIN rret = {"success", "error"}
           /\ StageWrites = {}

\* no search call, page fetch or file system operation of the run failed: a
\* failed search or file system operation ends the run where it happens, and
\* a failed page fetch leaves a record with an error field
NothingFailed ==
    /\ spc # "threw"
    /\ ~(epc = "threw" /\ ethrown \in FsErrors)
    /\ \A f \in {"metadata", "verifiedBacklinks", "verifiedUrlBacklinks"} \cap DOMAIN runResults :
           \A k \in DOMAIN runResults[f] : "error" \notin DOMAIN runResults[f][k]

\* C27: a run in which no search call, page fetch or file system operation
\* fails reports success, also when no backlink is found or the SERP of the
\* competitors is empty
C27_SuccessWhenNothingFails ==
    (rpc = "returned" /\ NothingFailed) => rret.success

-----------------------------------------------------------------------------
(* Properties of searchMultipleKeywords *)

\* the links the j-th search returned
LinksFound(j) ==
    IF searches[j].outcome.kind = "returned"
    THEN { searches[j].outcome.results[m].link : m \in DOMAIN searches[j].outcome.results }
    ELSE {}

\* the j-th search failed: it made page calls and every one of them failed
KeywordFailed(j) ==
    /\ searches[j].outcome.kind = "returned"
    /\ \E n \in DOMAIN searches[j].outcome.pages : searches[j].outcome.pages[n].ev = "call"
    /\ \A n \in DOMAIN searches[j].outcome.pages :
           searches[j].outcome.pages[n].ev = "call"
               => searches[j].outcome.pages[n].outcome.kind = "error"

\* C28: the keywords are searched one at a time in input order, a failed
\* search included; the list returned has no two entries with the same link,
\* holds every link a search returned, and tags each entry with the first
\* keyword whose search returned its link; a failed search adds nothing
C28_UniqueLinksFirstKeyword ==
    /\ Len(searches) <= Len(kKeywords)
    /\ \A j \in DOMAIN searches :
           /\ searches[j].keyword = kKeywords[j]
           /\ searches[j].outcome.kind = "pending" => (j = Len(searches) /\ kpc = "search")
           /\ KeywordFailed(j) => LinksFound(j) = {}
    /\ kpc = "returned" =>
           /\ Len(searches) = Len(kKeywords)
           /\ \A a, b \in DOMAIN kret : a # b => kret[a].link # kret[b].link
           /\ \A j \in DOMAIN searches : \A l \in LinksFound(j) :
                  \E a \in DOMAIN kret : kret[a].link = l
           /\ \A a \in DOMAIN kret :
                  \E j \in DOMAIN searches :
                      /\ kret[a].link \in LinksFound(j)
                      /\ \A h \in 1..(j - 1) : kret[a].link \notin LinksFound(h)
                      /\ kret[a].keyword = kKeywords[j]

\* two different keywords: the search of the first returned one result, the
\* search of the second ten, the first of them with the link already seen
C28_Witness ==
    /\ kpc = "returned"
    /\ Len(kKeywords) = 2
    /\ kKeywords[1] # kKeywords[2]
    /\ Len(searches[1].outcome.results) = 1
    /\ Len(searches[2].outcome.results) = MaxResultsPerRequest
    /\ Len(kret) = MaxResultsPerRequest
    /\ kret[1].keyword = kKeywords[1]
    /\ kret[2].keyword = kKeywords[2]

-----------------------------------------------------------------------------
(* Properties of analyzeSiteForSubmission and analyzeBatchOfSites *)

\* a record whose confidence is within 0..100 and that accepts submissions
\* exactly from confidence 30 on
ScoredRecord(r) ==
    /\ "confidence" \in DOMAIN r
    /\ r.confidence \in 0..100
    /\ r.acceptsSubmissions = (r.confidence >= 30)

\* a record is that of a failed fetch when the fetch failed
FailureScored(r, outcome) ==
    outcome.kind = "error" => r.confidence = 0 /\ r.acceptsSubmissions = FALSE

\* C29: every record analyzeSiteForSubmission resolves with has a confidence
\* within 0..100 and accepts submissions exactly when the confidence is at
\* least 30, whatever the page holds; a site whose fetch failed has
\* confidence 0 and does not accept; and analyzeBatchOfSites returns one such
\* record per site, in the order of its argument, each made of its site's
\* fields and of the analysis of what that site's fetch gave.
C29_ConfidenceBoundedOnePerSite ==
    /\ upc = "returned" =>
           /\ ScoredRecord(uret)
           /\ FailureScored(uret, ufetched)
           /\ uret.url = siteUrl
    /\ bpc = "returned" =>
           /\ Len(bret) = Len(sites)
           /\ \A k \in DOMAIN bret :
                  /\ ScoredRecord(bret[k])
                  /\ FailureScored(bret[k], sfetched[k])
                  /\ bret[k].url = sites[k].url
                  /\ "title" \in DOMAIN sites[k] =>
                         /\ "title" \in DOMAIN bret[k]
                         /\ bret[k].title = sites[k].title
                  /\ sfetched[k].kind = "response" =>
                         bret[k].submissionPageUrls =
                             AnalyzedSite(sites[k].url,
                                 sfetched[k].response.data).submissionPageUrls

\* three sites were analysed in two batches: the fetch of one failed, one
\* page had findings worth more than 100 and its record has confidence 100,
\* and one page had nothing to find
C29_Witness ==
    /\ bpc = "returned"
    /\ Len(sites) = 3
    /\ batchSize = 2
    /\ sites[1] # sites[2]
    /\ sfetched[1].kind = "error"
    /\ bret[2].confidence = 100 /\ bret[2].acceptsSubmissions
    /\ bret[3].confidence = 0 /\ sfetched[3].kind = "response"

-----------------------------------------------------------------------------
(* Properties of categorizeSearchResults *)

CategoryNames == {"social_media", "content_platform", "other", "error"}

\* the entry of a list is the one made from this search result
MadeFrom(entry, result) ==
    /\ entry.url = PropertyOf(result, "link")
    /\ entry.title = PropertyOf(result, "title")
    /\ entry.snippet = PropertyOf(result, "snippet")
    /\ entry.keyword = PropertyOf(result, "keyword")

\* the entries of a list are made from some of the search results, in the
\* order of the search results
RECURSIVE InInputOrder(_, _)
InInputOrder(entries, list) ==
    \/ entries = <<>>
    \/ /\ list # <<>>
       /\ IF MadeFrom(Head(entries), Head(list))
          THEN InInputOrder(Tail(entries), Tail(list))
          ELSE InInputOrder(entries, Tail(list))

\* the places of the lists that hold an entry made from the search result
PlacesOf(categories, result) ==
    { p \in CategoryNames \X (1..MaxSearchResults) :
          /\ p[2] <= Len(categories[p[1]])
          /\ MadeFrom(categories[p[1]][p[2]], result) }

\* C30: categorizeSearchResults puts every search result in exactly one of
\* the four lists social_media, content_platform, other and error: the
\* lengths of the lists add up to the length of the argument, every list
\* keeps the order of the argument, and every entry is in the list of its
\* category. The social media domains are looked at first: an entry whose
\* hostname includes a social media domain is in social_media, medium.com
\* among them, and no entry of content_platform has such a hostname.
C30_OneListEachSocialFirst ==
    cpc = "returned" =>
        /\ DOMAIN cret = CategoryNames
        /\ Len(cret.social_media) + Len(cret.content_platform)
               + Len(cret.other) + Len(cret.error) = Len(cSearchResults)
        /\ \A k \in DOMAIN cSearchResults :
               Cardinality(PlacesOf(cret, cSearchResults[k])) =
                   Cardinality({ m \in DOMAIN cSearchResults :
                                    cSearchResults[m] = cSearchResults[k] })
        /\ \A c \in CategoryNames :
               /\ InInputOrder(cret[c], cSearchResults)
               /\ \A k \in DOMAIN cret[c] :
                      /\ cret[c][k].category = c
                      /\ SomeIncluded(SOCIAL_MEDIA_DOMAINS, cret[c][k].domain)
                             => c = "social_media"
                      /\ cret[c][k].domain = <<"m", "e", "d", "i", "u", "m", ".",
                                               "c", "o", "m">>
                             => c = "social_media"
                      /\ c = "content_platform" =>
                             SomeIncluded(CONTENT_PLATFORMS, cret[c][k].domain)

\* four search results were categorized, one into each list: the one of
\* www.medium.com, whose hostname is in both lists of domains, is in
\* social_media
C30_Witness ==
    /\ cpc = "returned"
    /\ Len(cSearchResults) = 4
    /\ Len(cret.social_media) = 1
    /\ cret.social_media[1].title = "Medium"
    /\ cret.social_media[1].domain = <<"m", "e", "d", "i", "u", "m", ".",
                                       "c", "o", "m">>
    /\ Len(cret.content_platform) = 1
    /\ cret.content_platform[1].title = "WordPress"
    /\ Len(cret.other) = 1
    /\ Len(cret.error) = 1
    /\ cret.error[1].title = "Object"

=============================================================================
